---- MODULE Spec2Model ----
(***************************************************************************)
(* Frontmatter-repair engine of the Obsidian vault utilities               *)
(* (FixFrontmatterSections.py, FixTags.py).                                *)
(*                                                                         *)
(* A text is a sequence of characters, each character a one-element        *)
(* string; NL is the line feed and SOH the control character chr(1).       *)
(* Python's string methods and the regular expressions of the source are   *)
(* operators over such sequences.                                          *)
(***************************************************************************)
EXTENDS Integers, Sequences, FiniteSets, TLC

VARIABLES
  \* ---- the vault engine (process_vault) ----
  cfg,        \* the loaded configuration: required_fields, default_tag, readable
  disk,       \* file name -> text on disk
  pc,         \* "config" | "walk" | "exit0" | "exit1" | "idle"
  todo,       \* the files os.walk still has to visit in this run
  run,        \* number of the current invocation of the program
  report,     \* file name -> what this run did to the file
  atStart,    \* snapshot of disk when the current run started
  prevReport, \* report of the previous run
  \* ---- the pure functions, applied to drawn inputs ----
  fin,        \* input of the function under study
  fout,       \* its outputs so far
  fpc         \* position in the chain of applications

vars == <<cfg, disk, pc, todo, run, report, atStart, prevReport, fin, fout, fpc>>

engineVars == <<cfg, disk, pc, todo, run, report, atStart, prevReport>>
funVars == <<fin, fout, fpc>>

-----------------------------------------------------------------------------
(* Characters *)

NL == "\n"
SOH == "<x01>"
SP == " "
TAB == "\t"
DQ == "\""
SQ == "'"
BS == "\\"
\* U+211D DOUBLE-STRUCK CAPITAL R: a letter of category Lu that \w matches
\* and that str.lower() leaves as it is (it has no lower-case form)
DSR == "<U+211D>"

\* str.isspace over the characters of the model
IsWs(c) == c \in {SP, NL, TAB}

LowerAlpha == <<"a", "b", "c", "d", "e", "f", "g", "h", "i", "j", "k", "l", "m",
                "n", "o", "p", "q", "r", "s", "t", "u", "v", "w", "x", "y", "z">>
UpperAlpha == <<"A", "B", "C", "D", "E", "F", "G", "H", "I", "J", "K", "L", "M",
                "N", "O", "P", "Q", "R", "S", "T", "U", "V", "W", "X", "Y", "Z">>
Lowers == {LowerAlpha[i] : i \in 1..26}
Upper == {UpperAlpha[i] : i \in 1..26}
Digits == {"0", "1", "2", "3", "4", "5", "6", "7", "8", "9"}

\* index of c in an alphabet
IndexIn(alpha, c) == CHOOSE i \in 1..Len(alpha) : alpha[i] = c

LowerOf(c) == IF c \in Upper THEN LowerAlpha[IndexIn(UpperAlpha, c)] ELSE c

\* code point of a character
Ord(c) ==
  CASE c \in Lowers -> 96 + IndexIn(LowerAlpha, c)
    [] c \in Upper -> 64 + IndexIn(UpperAlpha, c)
    [] c \in Digits -> 47 + IndexIn(<<"0", "1", "2", "3", "4", "5", "6", "7", "8", "9">>, c)
    [] c = SOH -> 1 [] c = TAB -> 9 [] c = NL -> 10 [] c = SP -> 32
    [] c = "!" -> 33 [] c = DQ -> 34 [] c = "#" -> 35 [] c = SQ -> 39
    [] c = "," -> 44 [] c = "-" -> 45 [] c = "." -> 46 [] c = "/" -> 47
    [] c = ":" -> 58 [] c = "?" -> 63 [] c = "[" -> 91 [] c = BS -> 92
    [] c = "]" -> 93 [] c = "_" -> 95 [] c = "{" -> 123 [] c = "|" -> 124
    [] c = "}" -> 125 [] c = "~" -> 126 [] c = DSR -> 8477

\* \w of the re module
IsWord(c) == c = "_" \/ c \in Digits \/ c \in Upper \/ c \in Lowers \/ c = DSR

\* c.isupper()
IsUpper(c) == c \in Upper \/ c = DSR

-----------------------------------------------------------------------------
(* Python string methods *)

\* least and greatest element of a non-empty set of integers
Min(S) == CHOOSE x \in S : \A y \in S : x <= y
Max(S) == 0 - Min({0 - x : x \in S})

\* positions of s that hold no blank
NonBlank(s) == {j \in 1..Len(s) : ~IsWs(s[j])}

LStrip(s) == IF NonBlank(s) = {} THEN <<>> ELSE SubSeq(s, Min(NonBlank(s)), Len(s))

RStrip(s) == IF NonBlank(s) = {} THEN <<>> ELSE SubSeq(s, 1, Max(NonBlank(s)))

Strip(s) == RStrip(LStrip(s))

\* s.lstrip(chars), s.rstrip(chars), s.strip(chars)
LStripChars(s, cs) ==
  LET keep == {j \in 1..Len(s) : s[j] \notin cs}
  IN IF keep = {} THEN <<>> ELSE SubSeq(s, Min(keep), Len(s))

RStripChars(s, cs) ==
  LET keep == {j \in 1..Len(s) : s[j] \notin cs}
  IN IF keep = {} THEN <<>> ELSE SubSeq(s, 1, Max(keep))

StripChars(s, cs) == RStripChars(LStripChars(s, cs), cs)

StartsWithAt(s, p, i) ==
  /\ i >= 1
  /\ i + Len(p) - 1 <= Len(s)
  /\ SubSeq(s, i, i + Len(p) - 1) = p

StartsWith(s, p) == StartsWithAt(s, p, 1)

EndsWith(s, p) == Len(p) <= Len(s) /\ SubSeq(s, Len(s) - Len(p) + 1, Len(s)) = p

\* s.find(p, i - 1) + 1: the first index >= i where p occurs, 0 when none
Find(s, p, i) ==
  LET c == {j \in i..(Len(s) - Len(p) + 1) : SubSeq(s, j, j + Len(p) - 1) = p}
  IN IF c = {} THEN 0 ELSE Min(c)

\* p in s
Contains(s, p) == Find(s, p, 1) > 0

\* s.replace(old, new), old non-empty
RECURSIVE ReplaceFrom(_, _, _, _)
ReplaceFrom(s, old, new, i) ==
  IF i > Len(s) THEN <<>>
  ELSE IF StartsWithAt(s, old, i) THEN new \o ReplaceFrom(s, old, new, i + Len(old))
  ELSE <<s[i]>> \o ReplaceFrom(s, old, new, i + 1)

Replace(s, old, new) == ReplaceFrom(s, old, new, 1)

\* s.lower()
Lower(s) == [i \in 1..Len(s) |-> LowerOf(s[i])]

\* s.splitlines(): no empty last line for a text that ends with a line feed
RECURSIVE SplitLines(_)
SplitLines(s) ==
  LET j == Find(s, <<NL>>, 1)
  IN IF s = <<>> THEN <<>>
     ELSE IF j = 0 THEN <<s>>
     ELSE <<SubSeq(s, 1, j - 1)>> \o SplitLines(SubSeq(s, j + 1, Len(s)))

\* sep.join(parts)
RECURSIVE Join(_, _)
Join(parts, sep) ==
  IF parts = <<>> THEN <<>>
  ELSE IF Len(parts) = 1 THEN parts[1]
  ELSE parts[1] \o sep \o Join(Tail(parts), sep)

\* s.split(sep) for a one-character separator
RECURSIVE SplitOn(_, _)
SplitOn(s, c) ==
  LET j == Find(s, <<c>>, 1)
  IN IF j = 0 THEN <<s>>
     ELSE <<SubSeq(s, 1, j - 1)>> \o SplitOn(SubSeq(s, j + 1, Len(s)), c)

\* the first position >= i of s that holds no blank (Len(s) + 1 when none)
SkipWs(s, i) ==
  LET c == {j \in i..Len(s) : ~IsWs(s[j])}
  IN IF c = {} THEN (IF i > Len(s) THEN i ELSE Len(s) + 1) ELSE Min(c)

\* re.sub(r'\s+', ' ', s)
RECURSIVE CollapseWs(_)
CollapseWs(s) ==
  LET blanks == {j \in 1..Len(s) : IsWs(s[j])}
      j == Min(blanks)
  IN IF blanks = {} THEN s
     ELSE SubSeq(s, 1, j - 1) \o <<SP>>
            \o CollapseWs(SubSeq(s, SkipWs(s, j), Len(s)))

\* s with every character of cs dropped
DropChars(s, cs) == SelectSeq(s, LAMBDA c : c \notin cs)

-----------------------------------------------------------------------------
(* Words of the source *)

Dashes == <<"-", "-", "-">>
KwAliases == <<"a", "l", "i", "a", "s", "e", "s">>
KwSource == <<"s", "o", "u", "r", "c", "e">>
KwTags == <<"t", "a", "g", "s">>
KwTitle == <<"t", "i", "t", "l", "e">>
KwCreated == <<"c", "r", "e", "a", "t", "e", "d">>
KwTopics == <<"t", "o", "p", "i", "c", "s">>
KwCategories == <<"c", "a", "t", "e", "g", "o", "r", "i", "e", "s">>
Http == <<"h", "t", "t", "p", ":", "/", "/">>
Https == <<"h", "t", "t", "p", "s", ":", "/", "/">>

-----------------------------------------------------------------------------
(* Structural pre-fixers *)

\* re.sub(r'^---(.)', '---\n\1', content, flags=re.MULTILINE): the replacement
\* is not a raw string, so '\1' is the character chr(1), not the group.
DanglingRepl(c) == Dashes \o <<NL, SOH>>

\* ^---(.) matches at position i of s
DanglingAt(s, i) ==
  /\ (i = 1 \/ s[i - 1] = NL)
  /\ StartsWithAt(s, Dashes, i)
  /\ i + 3 <= Len(s)
  /\ s[i + 3] # NL

RECURSIVE DanglingFrom(_, _)
DanglingFrom(s, i) ==
  LET c == {j \in i..Len(s) : DanglingAt(s, j)}
      j == Min(c)
  IN IF c = {} THEN SubSeq(s, i, Len(s))
     ELSE SubSeq(s, i, j - 1) \o DanglingRepl(s[j + 3]) \o DanglingFrom(s, j + 4)

fix_dangling_heading(content) == DanglingFrom(content, 1)

IsUrlStart(s) == StartsWith(s, Http) \/ StartsWith(s, Https)

\* the two lines emitted for an alias URL
AliasBlock(url) == <<KwAliases \o <<":">>, <<SP, SP, "-", SP, DQ>> \o url \o <<DQ>>>>

RECURSIVE MultilineFrom(_, _)
MultilineFrom(lines, i) ==
  IF i > Len(lines) THEN <<>>
  ELSE IF /\ StartsWith(Strip(lines[i]), KwAliases \o <<":", SP, "[">>)
          /\ i + 1 <= Len(lines)
          /\ IsUrlStart(Strip(lines[i + 1]))
       THEN AliasBlock(RStripChars(Strip(lines[i + 1]), {"]"}))
              \o MultilineFrom(lines, i + 2)
       ELSE <<lines[i]>> \o MultilineFrom(lines, i + 1)

fix_multiline_unquoted_alias_url(frontmatter_raw) ==
  Join(MultilineFrom(SplitLines(frontmatter_raw), 1), <<NL>>)

\* https?://[^\]]+ matched against the whole of u
IsUrlBody(u) ==
  /\ \/ (StartsWith(u, Http) /\ Len(u) > Len(Http))
     \/ (StartsWith(u, Https) /\ Len(u) > Len(Https))
  /\ ~Contains(u, <<"]">>)

\* ^\s*KEY\s*:\s* matched at the start of the stripped line s: the rest of s
\* after it, or <<"no">> (a one-element sequence no text equals) when no match
NoMatch == <<"<no match>">>

KeyPrefixRest(s, key) ==
  IF ~StartsWith(s, key) THEN NoMatch
  ELSE LET a == LStrip(SubSeq(s, Len(key) + 1, Len(s)))
       IN IF a # <<>> /\ Head(a) = ":" THEN LStrip(Tail(a)) ELSE NoMatch

\* re.match(r'^\s*aliases\s*:\s*\[(https?://[^\]]+)\]\s*$', line.strip())
AliasUrlMatch(line) ==
  LET r == KeyPrefixRest(Strip(line), KwAliases)
  IN IF r # NoMatch /\ Len(r) >= 2 /\ Head(r) = "[" /\ r[Len(r)] = "]"
        /\ IsUrlBody(SubSeq(r, 2, Len(r) - 1))
     THEN SubSeq(r, 2, Len(r) - 1)
     ELSE NoMatch

QuoteAliasLine(line) ==
  LET u == AliasUrlMatch(line)
  IN IF u # NoMatch
     THEN KwAliases \o <<":", NL, SP, SP, "-", SP, DQ>> \o Strip(u) \o <<DQ>>
     ELSE line

RECURSIVE MapLines(_, _)
MapLines(lines, which) ==
  IF lines = <<>> THEN <<>>
  ELSE <<IF which = "aliases" THEN QuoteAliasLine(Head(lines))
         ELSE LET r == KeyPrefixRest(Strip(Head(lines)), KwSource)
              IN IF r # NoMatch /\ IsUrlBody(r)
                 THEN KwSource \o <<":", SP, DQ>> \o Strip(r) \o <<DQ>>
                 ELSE Head(lines)>>
       \o MapLines(Tail(lines), which)

quote_url_like_aliases(frontmatter_raw) ==
  Join(MapLines(SplitLines(frontmatter_raw), "aliases"), <<NL>>)

quote_url_like_source(frontmatter_raw) ==
  Join(MapLines(SplitLines(frontmatter_raw), "source"), <<NL>>)

\* the composition process_vault applies before fix_frontmatter
Preprocess(original_content) ==
  quote_url_like_source(
    quote_url_like_aliases(
      fix_multiline_unquoted_alias_url(
        fix_dangling_heading(original_content))))

-----------------------------------------------------------------------------
(* Values of a parsed frontmatter mapping.  k is the Python type of the    *)
(* value: "str", "int", "null" (None) or "list"; s the characters of a str *)
(* or the decimal digits of an int; q the quoting ruamel.yaml remembers    *)
(* for a loaded scalar ("p" plain, "d" double, "s" single); items the      *)
(* elements of a list and flow whether the list was loaded in flow style.  *)

StrQ(s, q) == [k |-> "str", s |-> s, q |-> q, items |-> <<>>, flow |-> FALSE]
StrV(s) == StrQ(s, "p")
IntV(s) == [k |-> "int", s |-> s, q |-> "p", items |-> <<>>, flow |-> FALSE]
NullV == [k |-> "null", s |-> <<>>, q |-> "p", items |-> <<>>, flow |-> FALSE]
ListF(items, flow) == [k |-> "list", s |-> <<>>, q |-> "p", items |-> items, flow |-> flow]
ListV(items) == ListF(items, FALSE)

\* Python's ==, which ignores how a scalar was quoted or a list laid out
RECURSIVE PyEq(_, _)
PyEq(v, w) ==
  /\ v.k = w.k
  /\ v.s = w.s
  /\ Len(v.items) = Len(w.items)
  /\ \A i \in 1..Len(v.items) : PyEq(v.items[i], w.items[i])

\* bool(v)
Truthy(v) ==
  CASE v.k = "str" -> v.s # <<>>
    [] v.k = "int" -> DropChars(v.s, {"0", "-"}) # <<>>
    [] v.k = "list" -> v.items # <<>>
    [] OTHER -> FALSE

\* str(v) of a scalar
PyStr(v) ==
  CASE v.k = "null" -> <<"N", "o", "n", "e">>
    [] OTHER -> v.s

-----------------------------------------------------------------------------
(* Text normalizers *)

Quotes == {SQ, DQ}

strip_extra_quotes(s) == Strip(StripChars(StripChars(s, Quotes), Quotes))

normalize(s) == Strip(DropChars(CollapseWs(strip_extra_quotes(s)), {"?"}))

\* re.search(r'[\s,:|]', item)
NeedsQuoting(item) == \E i \in 1..Len(item) : IsWs(item[i]) \/ item[i] \in {",", ":", "|"}

Quoted(item) == <<DQ>> \o item \o <<DQ>>

\* the items sanitize_list_field emits for a list
RECURSIVE CleanItems(_)
CleanItems(items) ==
  IF items = <<>> THEN <<>>
  ELSE LET item == normalize(PyStr(Head(items)))
       IN <<StrV(IF NeedsQuoting(item) THEN Quoted(item) ELSE item)>>
            \o CleanItems(Tail(items))

IsDigits(s) == s # <<>> /\ \A i \in 1..Len(s) : s[i] \in Digits

\* a Python integer literal, one sign allowed (ast.literal_eval accepts them):
\* digits, single underscores between them, no leading zero unless it is zero
IsPyInt(s) ==
  LET d == IF s # <<>> /\ Head(s) \in {"-", "+"} THEN Tail(s) ELSE s
      g == DropChars(d, {"_"})
  IN /\ IsDigits(g)
     /\ Head(d) # "_" /\ d[Len(d)] # "_" /\ ~Contains(d, <<"_", "_">>)
     /\ (Head(g) # "0" \/ DropChars(g, {"0"}) = <<>>)

\* one element of a Python list literal: [ok, v]
PyLiteralItem(t) ==
  LET u == StripChars(t, {SP, TAB})
  IN IF IsPyInt(u) THEN [ok |-> TRUE, v |-> IntV(u)]
     ELSE IF /\ Len(u) >= 2
             /\ Head(u) \in Quotes
             /\ u[Len(u)] = Head(u)
             /\ \A i \in 2..(Len(u) - 1) : u[i] \notin {Head(u), BS, NL}
          THEN [ok |-> TRUE, v |-> StrV(SubSeq(u, 2, Len(u) - 1))]
     ELSE [ok |-> FALSE, v |-> NullV]

\* the commas of t that are outside quotes split it: the pieces
RECURSIVE SplitTopFrom(_, _, _, _)
SplitTopFrom(t, i, cur, inq) ==
  IF i > Len(t) THEN <<cur>>
  ELSE IF inq = "" /\ t[i] = "," THEN <<cur>> \o SplitTopFrom(t, i + 1, <<>>, "")
  ELSE SplitTopFrom(t, i + 1, Append(cur, t[i]),
                    IF inq = "" /\ t[i] \in Quotes THEN t[i]
                    ELSE IF inq = t[i] THEN "" ELSE inq)

\* ast.literal_eval(s): "list" with the elements, "other" for a literal that
\* is no list, "raise" for what is no Python literal
LiteralEval(s) ==
  LET raise == [kind |-> "raise", items |-> <<>>]
      Results(rs) ==
        IF \A i \in 1..Len(rs) : rs[i].ok
        THEN [kind |-> "list", items |-> [i \in 1..Len(rs) |-> rs[i].v]]
        ELSE raise
      \* a trailing comma is allowed in a list display
      Parts(parts) ==
        Results([i \in 1..(IF Len(parts) > 1 /\ StripChars(parts[Len(parts)], {SP, TAB}) = <<>>
                           THEN Len(parts) - 1 ELSE Len(parts)) |-> PyLiteralItem(parts[i])])
      Inner(inner) ==
        IF StripChars(inner, {SP, TAB}) = <<>> THEN [kind |-> "list", items |-> <<>>]
        ELSE Parts(SplitTopFrom(inner, 1, <<>>, ""))
      Of(u) ==
        IF IsPyInt(u) THEN [kind |-> "other", items |-> <<>>]
        ELSE IF Len(u) >= 2 /\ Head(u) = "[" /\ u[Len(u)] = "]"
             THEN Inner(SubSeq(u, 2, Len(u) - 1))
        ELSE raise
  IN Of(StripChars(s, {SP, TAB}))

\* the comparison of the sole alias with the title (lines 46-47)
AliasMatchesTitle(item, norm_title) == normalize(PyStr(item)) = norm_title

\* sanitize_list_field(value, title): the list of str it returns.  title is
\* the value of data.get("title"), NullV standing for None.
sanitize_list_field(value, title) ==
  LET \* lines 33-40: a str is replaced by the list it spells, or wrapped
      Evaluated(s, ev) ==
        IF ev.kind = "list" THEN ListV(ev.items)
        ELSE IF ev.kind = "raise" THEN ListV(<<StrV(s)>>)
        ELSE StrV(s)
      Stripped(s) == Evaluated(s, LiteralEval(s))
      \* lines 42-59
      Cleaned(v2, norm_title) ==
        IF v2.k = "list"
        THEN IF /\ Truthy(title) /\ norm_title # <<>> /\ Len(v2.items) = 1
                /\ AliasMatchesTitle(v2.items[1], norm_title)
             THEN <<StrV(norm_title)>>
             ELSE CleanItems(v2.items)
        ELSE <<StrV(Quoted(normalize(PyStr(v2))))>>
  IN Cleaned(IF value.k = "str" THEN Stripped(strip_extra_quotes(value.s)) ELSE value,
             normalize(PyStr(title)))

\* re.sub(r'[^\w\-]', '', tag)
KeepWord(s) == SelectSeq(s, LAMBDA c : IsWord(c) \/ c = "-")

\* sanitize_tag(tag) for a str
sanitize_tag(tag) ==
  Lower(KeepWord(Replace(Strip(Replace(Strip(tag), <<SP>>, <<"_">>)), <<"-">>, <<"_">>)))

\* a < b in Python's order of str
RECURSIVE LexLess(_, _)
LexLess(a, b) ==
  IF b = <<>> THEN FALSE
  ELSE IF a = <<>> THEN TRUE
  ELSE IF Head(a) = Head(b) THEN LexLess(Tail(a), Tail(b))
  ELSE Ord(Head(a)) < Ord(Head(b))

\* sorted(S) for a set of str
RECURSIVE Sorted(_)
Sorted(S) ==
  IF S = {} THEN <<>>
  ELSE LET m == CHOOSE x \in S : \A y \in S \ {x} : LexLess(x, y)
       IN <<m>> \o Sorted(S \ {m})

\* [t.strip() for t in raw_tags.split(',') if t.strip()]
RECURSIVE StripNonEmpty(_)
StripNonEmpty(parts) ==
  IF parts = <<>> THEN <<>>
  ELSE (IF Strip(Head(parts)) = <<>> THEN <<>> ELSE <<StrV(Strip(Head(parts)))>>)
         \o StripNonEmpty(Tail(parts))

\* clean_tags(raw_tags): the sorted list of str it returns
clean_tags(raw_tags) ==
  LET tags == IF raw_tags.k = "str" THEN StripNonEmpty(SplitOn(raw_tags.s, ","))
              ELSE IF raw_tags.k = "list" THEN raw_tags.items
              ELSE <<>>
      cleaned == {sanitize_tag(tags[i].s) :
                    i \in {j \in 1..Len(tags) : tags[j].k = "str"}} \ {<<>>}
  IN Sorted(cleaned)

-----------------------------------------------------------------------------
(* Rescue of a frontmatter that does not parse *)

\* while (s.startswith('"') and s.endswith('"')) or (...): s = s[1:-1].strip()
RECURSIVE UnwrapQuotes(_)
UnwrapQuotes(s) ==
  IF s # <<>> /\ Head(s) \in Quotes /\ s[Len(s)] = Head(s)
  THEN UnwrapQuotes(Strip(SubSeq(s, 2, Len(s) - 1)))
  ELSE s

\* re.sub(r'^[\'"]{2,}', '', s) and re.sub(r'[\'"]{2,}$', '', s)
DropQuoteRuns(s) ==
  LET a == LStripChars(s, Quotes)
      s1 == IF Len(s) - Len(a) >= 2 THEN a ELSE s
      b == RStripChars(s1, Quotes)
  IN IF Len(s1) - Len(b) >= 2 THEN b ELSE s1

\* one pass of the loop body of clean_malformed_title (lines 77-88)
TitlePass(s) ==
  DropQuoteRuns(
    UnwrapQuotes(
      Replace(Replace(Replace(s, <<BS, BS>>, <<BS>>), <<BS, DQ>>, <<DQ>>),
              <<BS, SQ>>, <<SQ>>)))

max_depth == 5

\* the for loop of clean_malformed_title: [s, last, passes] after it, where
\* last_s = NoMatch stands for None and passes counts the bodies executed
RECURSIVE TitleLoop(_, _, _, _)
TitleLoop(s, last_s, n, passes) ==
  IF n = 0 \/ s = last_s THEN [s |-> s, passes |-> passes]
  ELSE TitleLoop(TitlePass(s), s, n - 1, passes + 1)

clean_malformed_title(raw_title) ==
  Strip(TitleLoop(Strip(raw_title), NoMatch, max_depth, 0).s)

\* index of the last character of the line that holds position i
LineEnd(s, i) ==
  LET j == Find(s, <<NL>>, i)
  IN IF j = 0 THEN Len(s) ELSE j - 1

\* title:\s*(.+) tried at position i of s: [ok, gs, ge], the group's span.
\* \s* is greedy over line feeds; when it runs to the end of the text it
\* gives back its last blank that is no line feed.
TitleAt(s, i) ==
  LET p == i + Len(KwTitle) + 1
      q == SkipWs(s, p)
      back == {j \in p..Len(s) : s[j] # NL}
      j == Max(back)
  IN IF ~StartsWithAt(s, KwTitle \o <<":">>, i) THEN [ok |-> FALSE, gs |-> 0, ge |-> 0]
     ELSE IF q <= Len(s) THEN [ok |-> TRUE, gs |-> q, ge |-> LineEnd(s, q)]
     ELSE IF back # {} THEN [ok |-> TRUE, gs |-> j, ge |-> LineEnd(s, j)]
     ELSE [ok |-> FALSE, gs |-> 0, ge |-> 0]

\* the first position >= i where the pattern matches (anchored: only at the
\* start of a line), 0 when none
TitleSearch(s, i, anchored) ==
  LET First(c) == IF c = {} THEN 0 ELSE Min(c)
  IN First({j \in i..Len(s) :
              (~anchored \/ j = 1 \/ s[j - 1] = NL) /\ TitleAt(s, j).ok})

\* extract_title_from_raw_frontmatter: [found, title]
extract_title_from_raw_frontmatter(frontmatter_text) ==
  LET Group(m) ==
        [found |-> TRUE,
         title |-> clean_malformed_title(Strip(SubSeq(frontmatter_text, m.gs, m.ge)))]
      At(i) ==
        IF i = 0 THEN [found |-> FALSE, title |-> <<>>]
        ELSE Group(TitleAt(frontmatter_text, i))
  IN At(TitleSearch(frontmatter_text, 1, TRUE))

\* s.strip().strip('"').strip("'") without [ and ], blanks collapsed, lowered
normalize_for_compare(s) ==
  Lower(CollapseWs(DropChars(StripChars(StripChars(Strip(s), {DQ}), {SQ}), {"[", "]"})))

\* .replace('"', '\\"').replace(' - ', ' ').replace('|', '').replace("[", "").replace("]", "")
Defang(s) ==
  DropChars(Replace(Replace(s, <<DQ>>, <<BS, DQ>>), <<SP, "-", SP>>, <<SP>>),
            {"|", "[", "]"})

\* The replacement string of re.sub is a template: a backslash escapes the
\* next character.  [ok, s]; ok is false where re raises (a backslash that
\* ends the template or precedes a letter that is no escape).
RECURSIVE Template(_)
Template(r) ==
  LET j == Find(r, <<BS>>, 1)
      c == r[j + 1]
      t == Template(SubSeq(r, j + 2, Len(r)))
      pre == SubSeq(r, 1, j - 1)
  IN IF j = 0 THEN [ok |-> TRUE, s |-> r]
     ELSE IF j = Len(r) THEN [ok |-> FALSE, s |-> <<>>]
     ELSE IF c = BS THEN [ok |-> t.ok, s |-> pre \o <<BS>> \o t.s]
     ELSE IF c = "n" THEN [ok |-> t.ok, s |-> pre \o <<NL>> \o t.s]
     ELSE IF c = "t" THEN [ok |-> t.ok, s |-> pre \o <<TAB>> \o t.s]
     ELSE IF IsWord(c) /\ c # "_" THEN [ok |-> FALSE, s |-> <<>>]
     ELSE [ok |-> t.ok, s |-> pre \o <<BS, c>> \o t.s]

\* Step 1: re.sub(r'(".*?")\s+(".*?")', r'\1, \2', fixed).  The closing quote
\* of the first token is the first one that blanks and a quoted token follow.
NextQuoteOnLine(s, i) ==
  LET j == Find(s, <<DQ>>, i)
  IN IF j = 0 \/ LineEnd(s, i) < j \/ (i <= Len(s) /\ s[i] = NL) THEN 0 ELSE j

\* the match that starts at the quote at i: [ok, j, k, l], the closing quote
\* of the first token and the quotes of the second
CommaMatchAt(s, i) ==
  LET Second(j, k) == [ok |-> TRUE, j |-> j, k |-> k, l |-> NextQuoteOnLine(s, k + 1)]
      First(j) == Second(j, SkipWs(s, j + 1))
      Ends(ends) ==
        IF s[i] # DQ \/ ends = {} THEN [ok |-> FALSE, j |-> 0, k |-> 0, l |-> 0]
        ELSE First(Min(ends))
  IN Ends({j \in (i + 1)..LineEnd(s, i) :
             /\ s[j] = DQ
             /\ \E k \in {SkipWs(s, j + 1)} :
                  /\ k > j + 1
                  /\ k <= Len(s)
                  /\ s[k] = DQ
                  /\ NextQuoteOnLine(s, k + 1) > 0})

RECURSIVE InsertCommasFrom(_, _)
InsertCommasFrom(s, i) ==
  LET Match(m) ==
        SubSeq(s, i, m.j) \o <<",", SP>> \o SubSeq(s, m.k, m.l)
          \o InsertCommasFrom(s, m.l + 1)
      Starts(c) ==
        IF c = {} THEN SubSeq(s, i, Len(s)) ELSE Match(CommaMatchAt(s, Min(c)))
  IN Starts({x \in i..Len(s) : s[x] = DQ /\ CommaMatchAt(s, x).ok})

InsertCommas(fixed) == InsertCommasFrom(fixed, 1)

\* re.sub(r'title:\s*(.+)', repl, fixed)
RECURSIVE SubTitleFrom(_, _, _)
SubTitleFrom(s, i, repl) ==
  LET At(j) ==
        IF j = 0 THEN SubSeq(s, i, Len(s))
        ELSE SubSeq(s, i, j - 1) \o repl \o SubTitleFrom(s, TitleAt(s, j).ge + 1, repl)
  IN At(TitleSearch(s, i, FALSE))

\* KEY:\s*\[(.*?)\] tried at position i: [ok, gs, ge] with the group's span
\* (empty group: ge = gs - 1)
ListAt(s, i, key) ==
  LET b == SkipWs(s, i + Len(key) + 1)
      close == {e \in (b + 1)..LineEnd(s, b) : s[e] = "]"}
      e == Min(close)
  IN IF /\ StartsWithAt(s, key \o <<":">>, i)
        /\ b <= Len(s) /\ s[b] = "["
        /\ close # {}
     THEN [ok |-> TRUE, gs |-> b + 1, ge |-> e - 1]
     ELSE [ok |-> FALSE, gs |-> 0, ge |-> 0]

ListSearch(s, i, key) ==
  LET First(c) == IF c = {} THEN 0 ELSE Min(c)
  IN First({j \in i..Len(s) : ListAt(s, j, key).ok})

\* re.sub(KEY:\s*\[(.*?)\], repl, fixed, count): count = 0 replaces all
RECURSIVE SubListFrom(_, _, _, _, _)
SubListFrom(s, i, key, repl, left) ==
  LET At(j) ==
        IF left = 0 \/ j = 0 THEN SubSeq(s, i, Len(s))
        ELSE SubSeq(s, i, j - 1) \o repl
               \o SubListFrom(s, ListAt(s, j, key).ge + 2, key, repl,
                              IF left > 0 THEN left - 1 ELSE left)
  IN At(ListSearch(s, i, key))

\* re.split(r',\s*', s)
RECURSIVE SplitCommaWs(_)
SplitCommaWs(s) ==
  LET j == Find(s, <<",">>, 1)
  IN IF j = 0 THEN <<s>>
     ELSE <<SubSeq(s, 1, j - 1)>> \o SplitCommaWs(SubSeq(s, SkipWs(s, j + 1), Len(s)))

\* x.strip().strip('"').strip("'")
StripItem(x) == StripChars(StripChars(Strip(x), {DQ}), {SQ})

\* '\n  - '.join(f'"{i}"' if re.search(r'[\s,:|]', i) else i for i in items)
RECURSIVE BlockItems(_)
BlockItems(items) ==
  IF items = <<>> THEN <<>>
  ELSE (IF NeedsQuoting(Head(items)) THEN Quoted(Head(items)) ELSE Head(items))
         \o (IF Len(items) = 1 THEN <<>>
             ELSE <<NL, SP, SP, "-", SP>> \o BlockItems(Tail(items)))

\* the condition of line 211: the title is CONTAINED in the list's text
AliasIsTitle(title, raw_aliases) ==
  /\ title # <<>>
  /\ Contains(normalize_for_compare(raw_aliases), normalize_for_compare(title))

\* re.MULTILINE, passed where re.sub takes its count (line 216)
reMULTILINE == 8

BlockHead == <<":", NL, SP, SP, "-", SP>>

\* lines 203-226, on the text after the title was re-quoted
RescueAliases(fixed, title) ==
  LET Sub(repl, count) ==
        IF ~repl.ok THEN [ok |-> FALSE, s |-> <<>>]
        ELSE [ok |-> TRUE, s |-> SubListFrom(fixed, 1, KwAliases, repl.s, count)]
      Items(parts) == [n \in 1..Len(parts) |-> StripItem(parts[n])]
      Decide(raw_aliases, isTitle) ==
        Sub(Template(KwAliases \o BlockHead
                       \o (IF isTitle THEN Quoted(normalize_for_compare(title))
                           ELSE BlockItems(Items(SplitCommaWs(raw_aliases))))),
            IF isTitle THEN reMULTILINE ELSE -1)
      Raw(raw_aliases) == Decide(raw_aliases, AliasIsTitle(title, raw_aliases))
      Match(m) == Raw(Defang(SubSeq(fixed, m.gs, m.ge)))
      At(i) ==
        IF i = 0 THEN [ok |-> TRUE, s |-> fixed] ELSE Match(ListAt(fixed, i, KwAliases))
  IN At(ListSearch(fixed, 1, KwAliases))

\* t.strip().strip('"').strip("'").replace(" ","_").replace("-","_")
TagItem(t) == Replace(Replace(StripItem(t), <<SP>>, <<"_">>), <<"-">>, <<"_">>)

\* lines 229-238
RescueTags(fixed) ==
  LET Sub(repl) ==
        IF ~repl.ok THEN [ok |-> FALSE, s |-> <<>>]
        ELSE [ok |-> TRUE, s |-> SubListFrom(fixed, 1, KwTags, repl.s, -1)]
      Parts(parts) ==
        Sub(Template(KwTags \o BlockHead
                       \o BlockItems([n \in 1..Len(parts) |-> TagItem(parts[n])])))
      Match(m) == Parts(SplitCommaWs(SubSeq(fixed, m.gs, m.ge)))
      At(i) ==
        IF i = 0 THEN [ok |-> TRUE, s |-> fixed] ELSE Match(ListAt(fixed, i, KwTags))
  IN At(ListSearch(fixed, 1, KwTags))

\* attempt_fix_broken_frontmatter(frontmatter_text): [ok, s]; ok is false
\* where the function raises (no title line: None has no replace; a
\* replacement template re rejects)
\* line 195: the title the rescue works with
RescueTitle(frontmatter_text) ==
  Defang(extract_title_from_raw_frontmatter(frontmatter_text).title)

\* line 196: the template that replaces the title line
TitleTemplate(frontmatter_text) ==
  Template(KwTitle \o <<":", SP>> \o Quoted(RescueTitle(frontmatter_text)))

\* lines 191-226: [ok, s] after the commas, the title and the aliases
RescueTitleAndAliases(frontmatter_text) ==
  RescueAliases(SubTitleFrom(InsertCommas(frontmatter_text), 1,
                             TitleTemplate(frontmatter_text).s),
                RescueTitle(frontmatter_text))

\* the rescue without its last step: the tags list is left as it was
RescueLeavesTags(frontmatter_text) ==
  LET Steps(ext, trepl, step3) ==
        IF ~ext.found \/ ~trepl.ok \/ ~step3.ok THEN [ok |-> FALSE, s |-> <<>>]
        ELSE step3
  IN Steps(extract_title_from_raw_frontmatter(frontmatter_text),
           TitleTemplate(frontmatter_text), RescueTitleAndAliases(frontmatter_text))

attempt_fix_broken_frontmatter(frontmatter_text) ==
  LET \* lines 228-238 when no step before raised
      Steps(ext, trepl, step3) ==
        IF ~ext.found \/ ~trepl.ok \/ ~step3.ok THEN [ok |-> FALSE, s |-> <<>>]
        ELSE RescueTags(step3.s)
  IN Steps(extract_title_from_raw_frontmatter(frontmatter_text),
           TitleTemplate(frontmatter_text), RescueTitleAndAliases(frontmatter_text))

-----------------------------------------------------------------------------
(* ruamel.yaml, as fix_frontmatter uses it: YAML() in round-trip mode with *)
(* preserve_quotes.  The frontmatters of the model are block mappings of   *)
(* one-line entries "key: scalar", "key: [flow, list]" and "key:" followed *)
(* by "- item" lines; a text of another shape that YAML gives a meaning    *)
(* (nested or multi-line nodes, tags, anchors, floats, booleans, dates) is *)
(* answered "unsup" and kept out of the inputs.                            *)

NullWords == {<<"n", "u", "l", "l">>, <<"N", "u", "l", "l">>, <<"~">>}
BoolWords == {<<"t", "r", "u", "e">>, <<"T", "r", "u", "e">>,
              <<"f", "a", "l", "s", "e">>}

\* optional sign, digits
IsIntLike(s) ==
  LET d == IF s # <<>> /\ Head(s) \in {"-", "+"} THEN Tail(s) ELSE s
  IN IsDigits(d)

\* the date at the head of a YAML timestamp: dddd-dd-dd
IsTimestampLike(s) ==
  /\ Len(s) >= 10
  /\ \A i \in {1, 2, 3, 4, 6, 7, 9, 10} : s[i] \in Digits
  /\ s[5] = "-" /\ s[8] = "-"

\* digits with a decimal point
IsFloatLike(s) ==
  /\ Contains(s, <<".">>)
  /\ IsIntLike(DropChars(s, {"."}))

\* a plain scalar that the resolver gives another type than str
ResolvesNonStr(s) ==
  \/ IsIntLike(s) \/ IsTimestampLike(s) \/ IsFloatLike(s)
  \/ s \in NullWords \/ s \in BoolWords

StartIndicators == {"#", ",", "[", "]", "{", "}", "&", "*", "!", "|", ">", SQ, DQ, "%", "@"}

\* the emitter's analysis of a str: may it be written plain in a block
\* (flow = FALSE) or in a flow sequence (flow = TRUE)
PlainOK(s, flow) ==
  /\ s # <<>>
  /\ ~IsWs(Head(s)) /\ ~IsWs(s[Len(s)])
  /\ \A i \in 1..Len(s) : s[i] \notin {NL, TAB, SOH}
  /\ Head(s) \notin StartIndicators
  /\ ~(Head(s) \in {"-", "?", ":"} /\ (Len(s) = 1 \/ IsWs(s[2]) \/ flow))
  /\ \A i \in 1..Len(s) :
        /\ s[i] = ":" => ~flow /\ i < Len(s) /\ ~IsWs(s[i + 1])
        /\ s[i] = "#" => i = 1 \/ ~IsWs(s[i - 1])
        /\ s[i] \in {",", "?", "[", "]", "{", "}"} => ~flow \/ i = 1
  /\ ~ResolvesNonStr(s)

\* a str in single quotes, a quote written twice
SingleQuoted(s) == <<SQ>> \o Replace(s, <<SQ>>, <<SQ, SQ>>) \o <<SQ>>

\* a str in double quotes, backslash and quote escaped
DoubleQuoted(s) ==
  <<DQ>> \o Replace(Replace(s, <<BS>>, <<BS, BS>>), <<DQ>>, <<BS, DQ>>) \o <<DQ>>

\* the text of one scalar
DumpScalar(v, flow) ==
  CASE v.k = "null" -> <<>>
    [] v.k = "int" -> v.s
    [] v.k = "str" /\ v.q = "d" -> DoubleQuoted(v.s)
    [] v.k = "str" /\ v.q = "s" -> SingleQuoted(v.s)
    [] OTHER -> IF PlainOK(v.s, flow) THEN v.s ELSE SingleQuoted(v.s)

RECURSIVE DumpFlowItems(_)
DumpFlowItems(items) ==
  IF items = <<>> THEN <<>>
  ELSE DumpScalar(Head(items), TRUE)
         \o (IF Len(items) = 1 THEN <<>> ELSE <<",", SP>> \o DumpFlowItems(Tail(items)))

RECURSIVE DumpBlockItems(_)
DumpBlockItems(items) ==
  IF items = <<>> THEN <<>>
  ELSE (IF Head(items).k = "null" THEN <<"-">>
        ELSE <<"-", SP>> \o DumpScalar(Head(items), FALSE))
         \o <<NL>> \o DumpBlockItems(Tail(items))

\* one entry of the mapping, with its line feed
DumpEntry(e) ==
  IF e.val.k = "list"
  THEN IF e.val.items = <<>> THEN e.key \o <<":", SP, "[", "]", NL>>
       ELSE IF e.val.flow
            THEN e.key \o <<":", SP, "[">> \o DumpFlowItems(e.val.items) \o <<"]", NL>>
            ELSE e.key \o <<":", NL>> \o DumpBlockItems(e.val.items)
  ELSE IF e.val.k = "null" THEN e.key \o <<":", NL>>
  ELSE e.key \o <<":", SP>> \o DumpScalar(e.val, FALSE) \o <<NL>>

RECURSIVE DumpEntries(_)
DumpEntries(m) == IF m = <<>> THEN <<>> ELSE DumpEntry(Head(m)) \o DumpEntries(Tail(m))

\* yaml.dump(data, stream); stream.getvalue()
YamlDump(m) == IF m = <<>> THEN <<"{", "}", NL>> ELSE DumpEntries(m)

Bad(st) == [st |-> st, v |-> NullV]
Good(v) == [st |-> "ok", v |-> v]

\* number of backslashes right before position j
BsRun(v, j) ==
  LET stop == {i \in 1..(j - 1) : v[i] # BS}
  IN IF stop = {} THEN j - 1 ELSE j - 1 - Max(stop)

\* the escapes of a double-quoted scalar undone: \" and \\ ; [st, s]
RECURSIVE UnescapeDQ(_)
UnescapeDQ(c) ==
  LET j == Find(c, <<BS>>, 1)
      t == UnescapeDQ(SubSeq(c, j + 2, Len(c)))
  IN IF j = 0 THEN [st |-> "ok", s |-> c]
     ELSE IF j = Len(c) \/ c[j + 1] \notin {BS, DQ} THEN [st |-> "unsup", s |-> <<>>]
     ELSE [st |-> t.st, s |-> SubSeq(c, 1, j - 1) \o <<c[j + 1]>> \o t.s]

\* v starts with a double quote
ParseDQ(v) ==
  LET Unescaped(u) == IF u.st # "ok" THEN Bad(u.st) ELSE Good(StrQ(u.s, "d"))
      Closed(j) ==
        IF Strip(SubSeq(v, j + 1, Len(v))) # <<>> THEN Bad("error")
        ELSE Unescaped(UnescapeDQ(SubSeq(v, 2, j - 1)))
      Close(close) == IF close = {} THEN Bad("unsup") ELSE Closed(Min(close))
  IN Close({j \in 2..Len(v) : v[j] = DQ /\ BsRun(v, j) % 2 = 0})

\* the closing quote of a single-quoted scalar that opens before i: the
\* first quote at or after i that is not written twice; 0 when none
RECURSIVE CloseSQ(_, _)
CloseSQ(v, i) ==
  LET j == Find(v, <<SQ>>, i)
  IN IF j = 0 THEN 0
     ELSE IF j < Len(v) /\ v[j + 1] = SQ THEN CloseSQ(v, j + 2)
     ELSE j

ParseSQ(v) ==
  LET j == CloseSQ(v, 2)
  IN IF j = 0 THEN Bad("unsup")
     ELSE IF Strip(SubSeq(v, j + 1, Len(v))) # <<>> THEN Bad("error")
     ELSE Good(StrQ(Replace(SubSeq(v, 2, j - 1), <<SQ, SQ>>, <<SQ>>), "s"))

\* a plain scalar, resolved
ParsePlain(v, flow) ==
  IF \/ Head(v) \in StartIndicators \ {SQ, DQ, "["}
     \/ (Head(v) \in {"-", "?", ":"} /\ (Len(v) = 1 \/ IsWs(v[2])))
     \/ Contains(v, <<SP, "#">>)
     \/ \E i \in 1..Len(v) : v[i] \in {TAB, SOH}
  THEN Bad("unsup")
  ELSE IF Contains(v, <<":", SP>>) \/ v[Len(v)] = ":"
       THEN (IF flow THEN Bad("unsup") ELSE Bad("error"))
  ELSE IF flow /\ \E i \in 1..Len(v) : v[i] \in {"[", "]", "{", "}"} THEN Bad("unsup")
  ELSE IF v \in NullWords THEN Good(NullV)
  ELSE IF IsDigits(v) /\ (Len(v) = 1 \/ Head(v) # "0") THEN Good(IntV(v))
  ELSE IF ResolvesNonStr(v) THEN Bad("unsup")
  ELSE Good(StrV(v))

\* one item of a flow sequence
ParseFlowItem(t) ==
  LET Item(u) ==
        IF u = <<>> THEN Bad("error")
        ELSE IF Head(u) = DQ THEN ParseDQ(u)
        ELSE IF Head(u) = SQ THEN ParseSQ(u)
        ELSE IF Head(u) = "[" THEN Bad("unsup")
        ELSE ParsePlain(u, TRUE)
  IN Item(Strip(t))

\* v starts with [
ParseFlow(v) ==
  LET Items(rs) ==
        IF \E i \in 1..Len(rs) : rs[i].st = "unsup" THEN Bad("unsup")
        ELSE IF \E i \in 1..Len(rs) : rs[i].st = "error" THEN Bad("error")
        ELSE Good(ListF([i \in 1..Len(rs) |-> rs[i].v], TRUE))
      \* a trailing comma is allowed
      Parts(parts) ==
        Items([i \in 1..(IF Len(parts) > 1 /\ Strip(parts[Len(parts)]) = <<>>
                         THEN Len(parts) - 1 ELSE Len(parts)) |-> ParseFlowItem(parts[i])])
      Inner(inner) ==
        IF Strip(inner) = <<>> THEN Good(ListF(<<>>, TRUE))
        ELSE Parts(SplitTopFrom(inner, 1, <<>>, ""))
  IN IF v[Len(v)] # "]" THEN Bad("unsup") ELSE Inner(SubSeq(v, 2, Len(v) - 1))

\* the node written after "key:" or "- " on one line
ParseNode(v) ==
  IF v = <<>> THEN Good(NullV)
  ELSE IF Head(v) = DQ THEN ParseDQ(v)
  ELSE IF Head(v) = SQ THEN ParseSQ(v)
  ELSE IF Head(v) = "[" THEN ParseFlow(v)
  ELSE ParsePlain(v, FALSE)

IsItemLine(l) ==
  LET u == LStrip(l)
  IN u # <<>> /\ Head(u) = "-" /\ (Len(u) = 1 \/ u[2] = SP)

\* position of the ":" that ends the key of an entry line, 0 when none
KeySep(l) ==
  LET c == {k \in 1..Len(l) : l[k] = ":" /\ (k = Len(l) \/ l[k + 1] = SP)}
  IN IF c = {} THEN 0 ELSE Min(c)

IsKeyText(key) ==
  /\ key # <<>>
  /\ \A i \in 1..Len(key) : IsWord(key[i]) \/ key[i] \in {SP, "-"}
  /\ Head(key) # SP /\ key[Len(key)] # SP
  /\ ~IsItemLine(key)

\* the "- item" lines that follow line i: the index of the last of them
LastItem(lines, i) ==
  LET stop == {j \in (i + 1)..Len(lines) : ~IsItemLine(lines[j])}
  IN IF stop = {} THEN Len(lines) ELSE Min(stop) - 1

\* the items of lines a..b: [st, v]
ParseItems(lines, a, b) ==
  LET ind == {Len(lines[i]) - Len(LStrip(lines[i])) : i \in a..b}
      Items(rs) ==
        IF Cardinality(ind) > 1 \/ \E i \in a..b : rs[i].st = "unsup" \/ rs[i].v.k = "list"
        THEN Bad("unsup")
        ELSE IF \E i \in a..b : rs[i].st = "error" THEN Bad("error")
        ELSE Good(ListV([i \in 1..(b - a + 1) |-> rs[a + i - 1].v]))
  IN Items([i \in a..b |-> ParseNode(Strip(Tail(LStrip(lines[i]))))])

\* the text before the ":" that ends the key of an entry line
EntryKey(l) == SubSeq(l, 1, KeySep(l) - 1)

\* the text after it
EntryValue(l) == Strip(SubSeq(l, KeySep(l) + 1, Len(l)))

\* the value of the entry on line i: the block list below the key, or the
\* node on the line of the key: [st, v]
EntryNode(lines, i) ==
  IF EntryValue(lines[i]) # <<>> THEN ParseNode(EntryValue(lines[i]))
  ELSE IF LastItem(lines, i) > i THEN ParseItems(lines, i + 1, LastItem(lines, i))
  ELSE Good(NullV)

\* the entries of a block mapping from line i on: [st, m]
RECURSIVE LoadEntries(_, _)
LoadEntries(lines, i) ==
  LET Rest(key, node, rest) ==
        IF rest.st # "ok" THEN rest
        ELSE [st |-> "ok", m |-> <<[key |-> key, val |-> node.v]>> \o rest.m]
      Entry(l, k, key, v, lastIt, node) ==
        IF IsWs(Head(l)) /\ ~IsItemLine(l) THEN [st |-> "unsup", m |-> <<>>]
        ELSE IF IsItemLine(l) \/ k = 0 THEN [st |-> "error", m |-> <<>>]
        ELSE IF ~IsKeyText(key) \/ node.st = "unsup" THEN [st |-> "unsup", m |-> <<>>]
        ELSE IF node.st = "error" \/ (v # <<>> /\ lastIt > i) THEN [st |-> "error", m |-> <<>>]
        ELSE Rest(key, node, LoadEntries(lines, IF v = <<>> THEN lastIt + 1 ELSE i + 1))
  IN IF i > Len(lines) THEN [st |-> "ok", m |-> <<>>]
     ELSE Entry(lines[i], KeySep(lines[i]), EntryKey(lines[i]), EntryValue(lines[i]),
                LastItem(lines, i), EntryNode(lines, i))

HasKey(m, key) == \E i \in 1..Len(m) : m[i].key = key

\* data.get(key): NullV stands for None
Get(m, key) ==
  IF HasKey(m, key) THEN m[Min({i \in 1..Len(m) : m[i].key = key})].val ELSE NullV

\* data[key] = value
Put(m, key, value) ==
  IF HasKey(m, key)
  THEN [i \in 1..Len(m) |-> IF m[i].key = key THEN [key |-> key, val |-> value] ELSE m[i]]
  ELSE Append(m, [key |-> key, val |-> value])

\* the lines of a document that are not blank
DocLines(text) == SelectSeq(SplitLines(text), LAMBDA l : Strip(l) # <<>>)

\* yaml.load(text): st is "map" (m the entries), "null" (None), "other" (a
\* list or a scalar, top its value), "error" (the load raises) or "unsup"
YamlLoad(text) ==
  LET none == [st |-> "error", m |-> <<>>, top |-> NullV]
      \* top: the document when it is one node (a block list, a flow list or
      \* a scalar); r: its entries when it is a block mapping
      Doc(lines, allItems, noEntry, top, r) ==
        IF lines = <<>> THEN [none EXCEPT !.st = "null"]
        \* {} : the empty mapping, as yaml.dump writes it
        ELSE IF Len(lines) = 1 /\ Strip(lines[1]) = <<"{", "}">> THEN [none EXCEPT !.st = "map"]
        ELSE IF \E i \in 1..Len(lines) : Head(lines[i]) = "#" THEN [none EXCEPT !.st = "unsup"]
        ELSE IF noEntry /\ ~allItems /\ Len(lines) > 1 THEN [none EXCEPT !.st = "unsup"]
        ELSE IF allItems \/ noEntry
             THEN IF top.st = "unsup" THEN [none EXCEPT !.st = "unsup"]
                  ELSE IF top.st = "error" THEN none
                  ELSE IF top.v.k = "null" THEN [none EXCEPT !.st = "null"]
                  ELSE [none EXCEPT !.st = "other", !.top = top.v]
        ELSE IF r.st # "ok" THEN [none EXCEPT !.st = r.st]
        ELSE IF \E i, j \in 1..Len(r.m) : i # j /\ r.m[i].key = r.m[j].key THEN none
        ELSE [none EXCEPT !.st = "map", !.m = r.m]
  IN IF Contains(text, <<SOH>>) THEN none
     ELSE Doc(DocLines(text),
              \A i \in 1..Len(DocLines(text)) : IsItemLine(DocLines(text)[i]),
              \A i \in 1..Len(DocLines(text)) :
                 KeySep(DocLines(text)[i]) = 0 /\ ~IsItemLine(DocLines(text)[i]),
              IF IsItemLine(DocLines(text)[1])
              THEN ParseItems(DocLines(text), 1, Len(DocLines(text)))
              ELSE ParseNode(Strip(DocLines(text)[1])),
              LoadEntries(DocLines(text), 1))

-----------------------------------------------------------------------------
(* The notes of the model: lines of frontmatter and body *)

\* title: k   (a plain title, the base name of the first note)
LTitle == <<"t", "i", "t", "l", "e", ":", SP, "k">>
\* title: "My T"   (a double-quoted title)
LTitleQ == <<"t", "i", "t", "l", "e", ":", SP, DQ, "M", "y", SP, "T", DQ>>
\* created: '2024-01-01T00:00:00'   (the creation time, as the engine writes it)
LCreated == <<"c", "r", "e", "a", "t", "e", "d", ":", SP, SQ, "2", "0", "2", "4", "-", "0", "1", "-", "0", "1", "T", "0", "0", ":", "0", "0", ":", "0", "0", SQ>>
\* tags: [a]   (tags in normal form, flow style)
LTagsOk == <<"t", "a", "g", "s", ":", SP, "[", "a", "]">>
\* tags: [b, A c]   (tags to sort, lower and join)
LTagsFlow == <<"t", "a", "g", "s", ":", SP, "[", "b", ",", SP, "A", SP, "c", "]">>
\* tags: b-c, a   (tags as one comma-separated scalar)
LTagsStr == <<"t", "a", "g", "s", ":", SP, "b", "-", "c", ",", SP, "a">>
\* tags:   (the key of a block list)
LTagsKey == <<"t", "a", "g", "s", ":">>
\* - a   (an item of a block list)
LItemA == <<"-", SP, "a">>
\* aliases: [My  T?]   (the title, up to blanks and ?)
LAliasSame == <<"a", "l", "i", "a", "s", "e", "s", ":", SP, "[", "M", "y", SP, SP, "T", "?", "]">>
\* aliases: [my t]   (the title, up to case)
LAliasCase == <<"a", "l", "i", "a", "s", "e", "s", ":", SP, "[", "m", "y", SP, "t", "]">>
\* aliases: [x, x]   (an alias twice)
LAliasTwo == <<"a", "l", "i", "a", "s", "e", "s", ":", SP, "[", "x", ",", SP, "x", "]">>
\* aliases: ["a" "b"]   (a flow list that lost its comma)
LAliasBroken == <<"a", "l", "i", "a", "s", "e", "s", ":", SP, "[", DQ, "a", DQ, SP, DQ, "b", DQ, "]">>
\* tags: ["a" "b"]   (a flow list of tags that lost its comma)
LTagsBroken == <<"t", "a", "g", "s", ":", SP, "[", DQ, "a", DQ, SP, DQ, "b", DQ, "]">>
\* x: a: b   (a mapping inside a plain scalar: no rescue step touches it)
LBad == <<"x", ":", SP, "a", ":", SP, "b">>
\* hashtags: [q]   (a key that contains the word tags)
LHashtags == <<"h", "a", "s", "h", "t", "a", "g", "s", ":", SP, "[", "q", "]">>
\* topics: a b   (a scalar where a list is meant)
LTopics == <<"t", "o", "p", "i", "c", "s", ":", SP, "a", SP, "b">>
\* aliases: [http://x]   (a bare URL in a flow list)
LAliasUrl == <<"a", "l", "i", "a", "s", "e", "s", ":", SP, "[", "h", "t", "t", "p", ":", "/", "/", "x", "]">>
\* source: http://x   (a bare URL scalar)
LSource == <<"s", "o", "u", "r", "c", "e", ":", SP, "h", "t", "t", "p", ":", "/", "/", "x">>
\* title:k   (no blank after the colon: a plain scalar, not a mapping)
LGlued == <<"t", "i", "t", "l", "e", ":", "k">>
\* # H   (a heading of the body)
LHeading == <<"#", SP, "H">>
\* b   (a line of the body)
LText == <<"b">>

\* datetime.fromtimestamp(os.path.getctime(filename)).isoformat()
CTimeIso == <<"2", "0", "2", "4", "-", "0", "1", "-", "0", "1", "T", "0", "0", ":", "0", "0", ":", "0", "0">>

-----------------------------------------------------------------------------
(* fix_frontmatter *)

\* extract_frontmatter_block(content): [found, frontmatter, body]
extract_frontmatter_block(content) ==
  LET lines == SplitLines(content)
      ends == {j \in 2..Len(lines) : lines[j] = Dashes}
      end_index == Min(ends)
  IN IF Len(lines) < 3 \/ Strip(lines[1]) # Dashes \/ ends = {}
     THEN [found |-> FALSE, frontmatter |-> <<>>, body |-> <<>>]
     ELSE [found |-> TRUE,
           frontmatter |-> Join(SubSeq(lines, 2, end_index - 1), <<NL>>),
           body |-> Join(SubSeq(lines, end_index + 1, Len(lines)), <<NL>>)]

\* the required fields the engine knows a default for (lines 266-271 and
\* 307-315): any other name of required_fields is never looked at
DefaultFor(key, base, default_tag) ==
  CASE key = KwTitle -> StrV(base)
    [] key = KwCreated -> StrV(CTimeIso)
    [] key = KwTags -> ListV(<<StrV(default_tag)>>)

KnownRequired == <<KwTitle, KwCreated, KwTags>>

\* lines 265-271 and 307-315: data with the missing required fields added
RECURSIVE AddRequired(_, _, _, _, _)
AddRequired(data, keys, required_fields, base, default_tag) ==
  IF keys = <<>> THEN data
  ELSE AddRequired(
         IF Head(keys) \in required_fields /\ ~HasKey(data, Head(keys))
         THEN Put(data, Head(keys), DefaultFor(Head(keys), base, default_tag))
         ELSE data,
         Tail(keys), required_fields, base, default_tag)

StatusInserted == "Inserted new frontmatter"
StatusFixed == "Fixed existing frontmatter"
StatusUnmodified == "Valid and unmodified"
StatusInvalid == "Still invalid after fix"

\* what fix_frontmatter does: "return" with content (NoMatch for None) and
\* status, or "raise" when an exception leaves it
Return(content, status, printed) ==
  [kind |-> "return", content |-> content, status |-> status, printed |-> printed]
Raise(what, printed) ==
  [kind |-> "raise", content |-> NoMatch, status |-> what, printed |-> printed]

\* the insertion with the blanks that lead the text kept
InsertedTextKeepsBlanks(new_yaml, content) ==
  Dashes \o <<NL>> \o new_yaml \o Dashes \o <<NL>> \o content

\* line 275
InsertedText(new_yaml, content) ==
  Dashes \o <<NL>> \o new_yaml \o Dashes \o <<NL>> \o LStrip(content)

\* line 321
FixedText(new_yaml, body) == Dashes \o <<NL>> \o new_yaml \o Dashes \o <<NL>> \o body

ListKeys == <<KwAliases, KwTags, KwTopics, KwCategories>>

\* lines 293-298: [data, modified] after the keys were normalized
RECURSIVE NormalizeLists(_, _, _, _)
NormalizeLists(data, modified, keys, title_value) ==
  LET \* lines 295-298
      Cleaned(key, cleaned) ==
        IF HasKey(data, key) /\ ~PyEq(cleaned, Get(data, key))
        THEN NormalizeLists(Put(data, key, cleaned), TRUE, Tail(keys), title_value)
        ELSE NormalizeLists(data, modified, Tail(keys), title_value)
      Key(key) ==
        Cleaned(key, ListV(sanitize_list_field(Get(data, key),
                                               IF key = KwAliases THEN title_value ELSE NullV)))
  IN IF keys = <<>> THEN [data |-> data, modified |-> modified] ELSE Key(Head(keys))

\* list of str for the strs clean_tags returns
StrList(ss) == ListV([i \in 1..Len(ss) |-> StrV(ss[i])])

\* the guard of line 300: the word is looked for in the raw text
TagsGuard(frontmatter, data) == Contains(frontmatter, KwTags)

\* the value of "modified" when the normalizer starts (line 290)
ModifiedAfterLoad(rescued) == FALSE

\* lines 290-323, from the loaded mapping on
Normalize(data, rescued, frontmatter, body, base, required_fields, default_tag, printed) ==
  LET \* lines 317-323
      Emit(d, modified) ==
        IF modified
        THEN Return(FixedText(YamlDump(d), body), StatusFixed, printed)
        ELSE Return(NoMatch, StatusUnmodified, printed)
      \* lines 307-315
      Added(n2, d3) == Emit(d3, n2.modified \/ d3 # n2.data)
      Required(n2) ==
        Added(n2, AddRequired(n2.data, KnownRequired, required_fields, base, default_tag))
      \* lines 301-305
      Tags(n1, cleaned_tags) ==
        IF PyEq(cleaned_tags, Get(n1.data, KwTags)) THEN n1
        ELSE [data |-> Put(n1.data, KwTags, cleaned_tags), modified |-> TRUE]
      \* line 300
      Guard(n1, guard) ==
        IF guard /\ ~HasKey(n1.data, KwTags) THEN Raise("KeyError", printed)
        ELSE Required(IF guard THEN Tags(n1, StrList(clean_tags(Get(n1.data, KwTags))))
                      ELSE n1)
      Lists(n1) == Guard(n1, TagsGuard(frontmatter, n1.data))
  IN Lists(NormalizeLists(data, ModifiedAfterLoad(rescued), ListKeys, Get(data, KwTitle)))

MsgRescue == "Parse failed. Attempting rescue"

\* what the load of lines 277-288 leaves: "data" (the mapping to normalize,
\* whether it was rescued), "return" or "raise" (fix_frontmatter ends with
\* this status), "rescue" (the first load raised)
\* what the loads of lines 277-288 leave; tried is the text that the second
\* yaml.load was given (NoMatch when there was none)
LoadData(m, rescued, printed, tried) ==
  [kind |-> "data", data |-> m, rescued |-> rescued, status |-> "", printed |-> printed,
   tried |-> tried]
LoadEnds(kind, status, printed, tried) ==
  [kind |-> kind, data |-> <<>>, rescued |-> FALSE, status |-> status, printed |-> printed,
   tried |-> tried]

\* lines 277-280: first is what yaml.load gave for the block
FirstLoad(first) ==
  IF first.st = "unsup" THEN LoadEnds("raise", "unsup", <<>>, NoMatch)
  ELSE IF first.st = "map" THEN LoadData(first.m, FALSE, <<>>, NoMatch)
  ELSE IF first.st = "null" \/ (first.st = "other" /\ ~Truthy(first.top))
       THEN LoadData(<<>>, FALSE, <<>>, NoMatch)
  ELSE IF first.st = "other" THEN LoadEnds("raise", "AttributeError", <<>>, NoMatch)
  ELSE LoadEnds("rescue", "", <<>>, NoMatch)

\* lines 281-288: fixed is what attempt_fix_broken_frontmatter gave
SecondLoad(fixed) ==
  LET Second(second) ==
        IF second.st = "unsup" THEN LoadEnds("raise", "unsup", <<MsgRescue>>, fixed.s)
        ELSE IF second.st = "error"
             THEN LoadEnds("return", StatusInvalid, <<MsgRescue, StatusInvalid>>, fixed.s)
        ELSE IF second.st = "map" THEN LoadData(second.m, TRUE, <<MsgRescue>>, fixed.s)
        ELSE LoadEnds("raise", "AttributeError", <<MsgRescue>>, fixed.s)
  IN IF ~fixed.ok THEN LoadEnds("raise", "rescue raised", <<MsgRescue>>, NoMatch)
     ELSE Second(YamlLoad(fixed.s))

\* fix_frontmatter(content, filename, required_fields, default_tag); base is
\* os.path.splitext(os.path.basename(filename))[0].  The field loaded of the
\* outcome lists, in order, the texts that yaml.load was called on.
fix_frontmatter(content, base, required_fields, default_tag) ==
  LET \* lines 290-323; ld is what the load of lines 277-288 left
      Loaded(blk, ld) ==
        [loaded |-> <<blk.frontmatter>>
                      \o (IF ld.tried = NoMatch THEN <<>> ELSE <<ld.tried>>)]
          @@ (IF ld.kind = "data"
              THEN Normalize(ld.data, ld.rescued, blk.frontmatter, blk.body, base,
                             required_fields, default_tag, ld.printed)
              ELSE IF ld.kind = "return" THEN Return(NoMatch, ld.status, ld.printed)
              ELSE Raise(ld.status, ld.printed))
      Block(blk, first, second) ==
        IF ~blk.found
        THEN [loaded |-> <<>>]
               @@ Return(InsertedText(YamlDump(AddRequired(<<>>, KnownRequired,
                                                           required_fields, base,
                                                           default_tag)),
                                      content),
                         StatusInserted, <<>>)
        ELSE Loaded(blk, IF first.kind = "rescue" THEN second ELSE first)
  IN Block(extract_frontmatter_block(content),
           FirstLoad(YamlLoad(extract_frontmatter_block(content).frontmatter)),
           SecondLoad(attempt_fix_broken_frontmatter(
                        extract_frontmatter_block(content).frontmatter)))

-----------------------------------------------------------------------------
(* The vault: the .md notes k.md and m.md and the file x.txt *)

NoteA == <<"k", ".", "m", "d">>
NoteB == <<"m", ".", "m", "d">>
Other == <<"x", ".", "t", "x", "t">>
Files == {NoteA, NoteB, Other}

\* the orders in which os.walk lists the files of the directory
WalkOrders == {<<NoteA, Other, NoteB>>, <<NoteB, Other, NoteA>>}

ExtMd == <<".", "m", "d">>

\* os.path.splitext(os.path.basename(filename))[0]
BaseName(fname) ==
  LET dots == {i \in 2..Len(fname) : fname[i] = "."}
  IN IF dots = {} THEN fname ELSE SubSeq(fname, 1, Max(dots) - 1)

\* greatest number of line feeds that end a note of the vault
MaxTrail == 1
\* number of times the program is invoked on the vault
MaxRuns == 2

RECURSIVE Feeds(_)
Feeds(n) == IF n = 0 THEN <<>> ELSE <<NL>> \o Feeds(n - 1)

\* a note: frontmatter lines between two delimiters, then the body lines
Note(fm, body, trail) ==
  Join(<<Dashes>> \o fm \o <<Dashes>> \o body, <<NL>>) \o Feeds(trail)

Frontmatters ==
  { <<LTitle, LCreated, LTagsOk>>,
    <<LTitle, LCreated, LTagsKey, LItemA>>,
    <<LTitle>>,
    <<LTitleQ, LCreated, LTagsOk, LAliasSame>>,
    <<LTitleQ, LCreated, LTagsOk, LAliasCase>>,
    <<LTitle, LCreated, LTagsFlow>>,
    <<LTitle, LCreated, LTagsStr>>,
    <<LTitle, LCreated, LTagsOk, LAliasTwo>>,
    <<LTitle, LAliasBroken>>,
    <<LTitle, LCreated, LTagsBroken>>,
    <<LAliasBroken>>,
    <<LTitle, LBad>>,
    <<LItemA>>,
    <<LGlued>>,
    <<LTitle, LCreated, LHashtags>>,
    <<LTitle, LCreated, LTagsOk, LTopics>>,
    <<LTitle, LCreated, LTagsOk, LAliasUrl>>,
    <<LTitle, LCreated, LTagsOk, LSource>>,
    <<>> }

Bodies == {<<>>, <<LText>>}

\* texts without a frontmatter block: empty, a line, a line after blanks, a
\* block that is not closed, a heading glued to the closing delimiter
Plain ==
  { <<>>, LText, <<SP, NL>> \o LText,
    Join(<<Dashes, LTitle>>, <<NL>>),
    Join(<<Dashes, LTitle, Dashes \o LHeading>>, <<NL>>) }

DocsA ==
  {Note(fm, b, n) : fm \in Frontmatters, b \in Bodies, n \in 0..MaxTrail}
    \cup {p \o Feeds(n) : p \in Plain, n \in 0..MaxTrail}

DocsB ==
  { Note(<<LTitle, LCreated, LTagsOk>>, <<LText>>, 0),
    LText,
    Note(<<LAliasBroken>>, <<>>, 0) }

DefaultTag == <<"a">>
KwAuthor == <<"a", "u", "t", "h", "o", "r">>

\* the required_fields of the configurations
RequiredSets ==
  { {KwTitle, KwCreated, KwTags}, {KwTitle}, {}, {KwTitle, KwAuthor} }

\* a configuration file that yaml.load reads, or one that cannot be read
Configs ==
  {[readable |-> TRUE, required_fields |-> r, default_tag |-> DefaultTag] : r \in RequiredSets}
    \cup {[readable |-> FALSE, required_fields |-> {}, default_tag |-> DefaultTag]}

-----------------------------------------------------------------------------
(* process_vault *)

\* lines 357 and 362: what process_vault prints after a write
MsgFixed == "Fixed frontmatter"
MsgHeading == "Fixed heading only"

Untouched == [status |-> "none", raised |-> FALSE, wrote |-> "no",
              read |-> <<>>, pre |-> <<>>, text |-> <<>>, printed |-> <<>>]

\* the body of the loop of process_vault for one .md file (lines 337-362):
\* what it read, what the pre-fixers gave, the status of fix_frontmatter,
\* whether an exception left the loop, which write was made ("fixed",
\* "heading" or "no"), the text on disk afterwards and the messages printed
\* for the file (those of fix_frontmatter, then that of the write)
ProcessOne(original_content, fname, c) ==
  LET Done(preprocessed_content, r, wrote) ==
        [status |-> r.status, raised |-> r.kind = "raise", wrote |-> wrote,
         read |-> original_content, pre |-> preprocessed_content,
         text |-> CASE wrote = "fixed" -> r.content
                    [] wrote = "heading" -> preprocessed_content
                    [] OTHER -> original_content,
         printed |-> r.printed \o (CASE wrote = "fixed" -> <<MsgFixed>>
                                     [] wrote = "heading" -> <<MsgHeading>>
                                     [] OTHER -> <<>>)]
      \* lines 345-362
      Fixed(preprocessed_content, heading_fixed, r) ==
        Done(preprocessed_content, r,
             IF r.kind = "raise" THEN "no"
             ELSE IF r.content # NoMatch /\ r.content # <<>> THEN "fixed"
             ELSE IF heading_fixed THEN "heading"
             ELSE "no")
  \* lines 341-343
  IN Fixed(Preprocess(original_content), Preprocess(original_content) # original_content,
           fix_frontmatter(Preprocess(original_content), BaseName(fname),
                           c.required_fields, c.default_tag))

\* the state before the program is started for the first time
Init ==
  /\ cfg \in Configs
  /\ disk \in {[f \in Files |-> CASE f = NoteA -> a [] f = NoteB -> b [] OTHER -> LText] :
                 a \in DocsA, b \in DocsB}
  /\ pc = "config"
  /\ todo = <<>>
  /\ run = 1
  /\ report = [f \in Files |-> Untouched]
  /\ atStart = disk
  /\ prevReport = [f \in Files |-> Untouched]
  /\ fin = <<>> /\ fout = <<>> /\ fpc = "off"

\* __main__: load_config, then process_vault; an exception of load_config
\* ends the program with sys.exit(1)
LoadConfig ==
  /\ pc = "config"
  /\ IF cfg.readable
     THEN pc' = "walk" /\ todo' \in WalkOrders
     ELSE pc' = "exit1" /\ todo' = <<>>
  /\ UNCHANGED <<cfg, disk, run, report, atStart, prevReport, funVars>>

\* one pass of the loop for a file whose name ends with .md; an exception
\* leaves process_vault and is caught in __main__, which exits with 1
ProcessFile ==
  /\ pc = "walk" /\ todo # <<>>
  /\ EndsWith(Head(todo), ExtMd)
  /\ \E r \in {ProcessOne(disk[Head(todo)], Head(todo), cfg)} :
        /\ report' = [report EXCEPT ![Head(todo)] = r]
        /\ disk' = [disk EXCEPT ![Head(todo)] = r.text]
        /\ pc' = IF r.raised THEN "exit1" ELSE "walk"
        /\ todo' = Tail(todo)
  /\ UNCHANGED <<cfg, run, atStart, prevReport, funVars>>

\* line 335-336: other files are passed over
SkipFile ==
  /\ pc = "walk" /\ todo # <<>>
  /\ ~EndsWith(Head(todo), ExtMd)
  /\ todo' = Tail(todo)
  /\ UNCHANGED <<cfg, disk, pc, run, report, atStart, prevReport, funVars>>

\* os.walk is exhausted: process_vault returns and the program ends
Finish ==
  /\ pc = "walk" /\ todo = <<>>
  /\ pc' = "exit0"
  /\ UNCHANGED <<cfg, disk, todo, run, report, atStart, prevReport, funVars>>

\* the program is started again on the vault as the last run left it
Rerun ==
  /\ pc = "exit0" /\ run < MaxRuns
  /\ run' = run + 1
  /\ pc' = "config"
  /\ prevReport' = report
  /\ report' = [f \in Files |-> Untouched]
  /\ atStart' = disk
  /\ UNCHANGED <<cfg, disk, todo, funVars>>

Next == LoadConfig \/ ProcessFile \/ SkipFile \/ Finish \/ Rerun

Spec == Init /\ [][Next]_vars

\* every frontmatter the runs meet is of the shape the YAML operators cover
InDomain == \A f \in Files : report[f].status # "unsup"

-----------------------------------------------------------------------------
(* Properties of the engine *)

\* C1 -- Engine idempotence: a run on the text an earlier run left on disk
\* (whose fix_frontmatter ended in inserted, fixed or unmodified) makes no
\* write, leaves the text as it was and reports "Valid and unmodified".
C1_SecondRunIsIdle ==
  \A f \in Files :
    ( /\ run >= 2
      /\ report[f].status # "none"
      /\ ~prevReport[f].raised
      /\ prevReport[f].status \in {StatusInserted, StatusFixed, StatusUnmodified} )
    => /\ report[f].status = StatusUnmodified
       /\ report[f].wrote = "no"
       /\ disk[f] = atStart[f]

\* C2 -- Rescue failure leaves the file untouched: a file whose
\* fix_frontmatter ended in "Still invalid after fix" holds on disk the text
\* that was read.
C2_InvalidIsUntouched ==
  \A f \in Files :
    report[f].status = StatusInvalid
    => report[f].wrote = "no" /\ disk[f] = report[f].read

\* C3 -- No per-file error aborts the batch: the program exits with 1 only
\* when the configuration could not be loaded, and never with files of the
\* walk left unvisited.
C3_OnlyConfigAborts ==
  pc = "exit1" => ~cfg.readable /\ todo = <<>>

\* C4 -- Unchanged files are not written: a note whose block is found and
\* parses at once, that has every required field and normalized lists
\* (fix_frontmatter answers "Valid and unmodified") and that holds none of
\* the patterns the pre-fixers repair is not written, whether or not its
\* text ends with a line feed.
C4_UnchangedNotWritten ==
  \A f \in Files :
    LET t == report[f].read
        lines == SplitLines(t)
        blk == extract_frontmatter_block(report[f].pre)
        noPattern ==
          /\ \A i \in 1..Len(t) : ~DanglingAt(t, i)
          /\ \A i \in 1..Len(lines) :
               /\ AliasUrlMatch(lines[i]) = NoMatch
               /\ KeyPrefixRest(Strip(lines[i]), KwSource) = NoMatch
               /\ ~StartsWith(Strip(lines[i]), KwAliases \o <<":", SP, "[">>)
    IN ( /\ report[f].status = StatusUnmodified
         /\ blk.found
         /\ YamlLoad(blk.frontmatter).st = "map"
         /\ \A k \in cfg.required_fields : HasKey(YamlLoad(blk.frontmatter).m, k)
         /\ noPattern )
       => report[f].wrote = "no" /\ disk[f] = t

\* C5 -- Required fields exist after processing: when fix_frontmatter ended
\* in inserted, fixed or unmodified, every name of required_fields is a key
\* of the frontmatter of the note on disk.
C5_RequiredPresent ==
  \A f \in Files :
    ( /\ ~report[f].raised
      /\ report[f].status \in {StatusInserted, StatusFixed, StatusUnmodified} )
    => LET blk == extract_frontmatter_block(disk[f])
           loaded == YamlLoad(blk.frontmatter)
           keys == IF blk.found /\ loaded.st = "map"
                   THEN {loaded.m[i].key : i \in 1..Len(loaded.m)}
                   ELSE {}
       IN cfg.required_fields \subseteq keys

\* C6 -- Insertion of new frontmatter: with required_fields = {title,
\* created, tags} a text without block is answered "Inserted new
\* frontmatter" and written as a "---" line, a mapping of exactly title (the
\* base name), created and tags = [default_tag], a "---" line and the input
\* text without its leading blanks.
C6_Insertion ==
  \A f \in Files :
    ( /\ report[f].status # "none"
      /\ ~report[f].raised
      /\ ~extract_frontmatter_block(report[f].pre).found
      /\ cfg.required_fields = {KwTitle, KwCreated, KwTags} )
    => LET out == disk[f]
           rest == LStrip(report[f].pre)
           tail == Dashes \o <<NL>> \o rest
           yaml == SubSeq(out, 5, Len(out) - Len(tail))
           loaded == YamlLoad(yaml)
       IN /\ report[f].status = StatusInserted
          /\ report[f].wrote = "fixed"
          /\ StartsWith(out, Dashes \o <<NL>>)
          /\ EndsWith(out, tail)
          /\ Len(out) >= 4 + Len(tail)
          /\ yaml = <<>> \/ yaml[Len(yaml)] = NL
          /\ loaded.st = "map"
          /\ {loaded.m[i].key : i \in 1..Len(loaded.m)} = {KwTitle, KwCreated, KwTags}
          /\ Len(loaded.m) = 3
          /\ PyEq(Get(loaded.m, KwTitle), StrV(BaseName(f)))
          /\ PyEq(Get(loaded.m, KwTags), ListV(<<StrV(cfg.default_tag)>>))

\* a text that starts with blanks and has no block was given a frontmatter
C6_Inserted ==
  \E f \in Files :
    /\ report[f].status = StatusInserted
    /\ report[f].wrote = "fixed"
    /\ cfg.required_fields = {KwTitle, KwCreated, KwTags}
    /\ report[f].pre # <<>>
    /\ IsWs(Head(report[f].pre))
    /\ disk[f] # report[f].read

\* the messages that tell how a file ended, among those printed for it
TerminalMessages == {MsgFixed, MsgHeading, StatusInvalid}

\* C12 -- Exactly one terminal status per file: for every .md file
\* process_vault went through, exactly one terminal message was printed.
C12_OneTerminalMessage ==
  \A f \in Files :
    (report[f].status # "none" /\ ~report[f].raised)
      => Cardinality({i \in 1..Len(report[f].printed) :
                        report[f].printed[i] \in TerminalMessages}) = 1

\* the token of a list item: the item without its list-level quoting
TokenOf(s) ==
  IF Len(s) >= 2 /\ Head(s) = DQ /\ s[Len(s)] = DQ /\ NeedsQuoting(SubSeq(s, 2, Len(s) - 1))
  THEN SubSeq(s, 2, Len(s) - 1)
  ELSE s

\* what C15 states of the value of a list field
NormalizedList(v) ==
  /\ v.k = "list"
  /\ \A i \in 1..Len(v.items) :
       /\ v.items[i].k = "str"
       /\ \A n \in 1..Len(TokenOf(v.items[i].s)) : TokenOf(v.items[i].s)[n] \notin Quotes
       /\ CollapseWs(TokenOf(v.items[i].s)) = TokenOf(v.items[i].s)
  /\ \A i, j \in 1..Len(v.items) : i # j => v.items[i].s # v.items[j].s

\* the mapping of the frontmatter of a text; no entries when there is none
MappingOf(text) ==
  IF extract_frontmatter_block(text).found
       /\ YamlLoad(extract_frontmatter_block(text).frontmatter).st = "map"
  THEN YamlLoad(extract_frontmatter_block(text).frontmatter).m
  ELSE <<>>

\* C15 -- Post-normalization invariant: after fix_frontmatter normalized a
\* mapping that parsed at once, each of aliases, tags, topics and categories
\* that is present is a list of strings without duplicates, without quote
\* characters other than the list-level quoting, and with runs of blanks
\* collapsed.
C15_ListsNormalized ==
  \A f \in Files :
    ( /\ ~report[f].raised
      /\ report[f].status \in {StatusFixed, StatusUnmodified}
      /\ \A i \in 1..Len(report[f].printed) : report[f].printed[i] # MsgRescue )
    => \A n \in 1..Len(ListKeys) :
         HasKey(MappingOf(disk[f]), ListKeys[n])
           => NormalizedList(Get(MappingOf(disk[f]), ListKeys[n]))

-----------------------------------------------------------------------------
(* The pure functions, applied to drawn inputs.  While they are studied the *)
(* engine does not run.                                                     *)

EngineOff ==
  /\ cfg = [readable |-> FALSE, required_fields |-> {}, default_tag |-> DefaultTag]
  /\ disk = [f \in Files |-> <<>>]
  /\ pc = "off"
  /\ todo = <<>>
  /\ run = 0
  /\ report = [f \in Files |-> Untouched]
  /\ atStart = [f \in Files |-> <<>>]
  /\ prevReport = [f \in Files |-> Untouched]

\* greatest number of lines, and of line feeds at the end, of a drawn text
MaxPreLines == 2
MaxPreTrail == 4

\* aliases: [   and   http://x]   (an alias URL on the line after the bracket)
LAliasOpen == <<"a", "l", "i", "a", "s", "e", "s", ":", SP, "[">>
LUrlClose == <<"h", "t", "t", "p", ":", "/", "/", "x", "]">>

\* aliases: http://x   (a bare URL scalar)
LAliasBare == <<"a", "l", "i", "a", "s", "e", "s", ":", SP, "h", "t", "t", "p", ":", "/", "/", "x">>

PreLines ==
  {Dashes, Dashes \o LHeading, LTitle, LAliasUrl, LSource, LText, LAliasOpen, LUrlClose,
   LAliasBare}

\* the sequences of 0..n elements of S
RECURSIVE SeqsUpTo(_, _)
SeqsUpTo(S, n) ==
  IF n = 0 THEN {<<>>}
  ELSE LET shorter == SeqsUpTo(S, n - 1)
       IN shorter \cup {Append(q, x) : q \in shorter, x \in S}

PreTexts ==
  {Join(ls, <<NL>>) \o Feeds(n) : ls \in SeqsUpTo(PreLines, MaxPreLines), n \in 0..MaxPreTrail}

InitPre ==
  /\ EngineOff
  /\ fin \in PreTexts
  /\ fout = <<>>
  /\ fpc = "start"

\* fix_dangling_heading(fin)
ApplyDangling ==
  /\ fpc = "start"
  /\ fout' = <<fix_dangling_heading(fin)>>
  /\ fpc' = "dangling"
  /\ UNCHANGED <<fin, engineVars>>

\* the four pre-fixers in the order of process_vault, on fin
ApplyPre ==
  /\ fpc = "start"
  /\ fout' = <<Preprocess(fin)>>
  /\ fpc' = "once"
  /\ UNCHANGED <<fin, engineVars>>

\* and once more on what they gave
ApplyPreAgain ==
  /\ fpc = "once"
  /\ fout' = Append(fout, Preprocess(fout[1]))
  /\ fpc' = "twice"
  /\ UNCHANGED <<fin, engineVars>>

\* fix_multiline_unquoted_alias_url(fin)
ApplyMultiline ==
  /\ fpc = "start"
  /\ fout' = <<fix_multiline_unquoted_alias_url(fin)>>
  /\ fpc' = "multiline"
  /\ UNCHANGED <<fin, engineVars>>

NextPre == ApplyDangling \/ ApplyPre \/ ApplyPreAgain \/ ApplyMultiline

SpecPre == InitPre /\ [][NextPre]_vars

\* C9 -- Dangling-heading repair: a one-line text "---" c r with c no line
\* feed becomes "---", a line feed, c and r: no character is lost or put in
\* the place of another ("---# Heading" becomes "---\n# Heading").
C9_DanglingSplit ==
  ( /\ fpc = "dangling"
    /\ StartsWith(fin, Dashes)
    /\ Len(fin) > 3
    /\ ~Contains(fin, <<NL>>) )
  => fout[1] = Dashes \o <<NL>> \o SubSeq(fin, 4, Len(fin))

\* C10 -- Pre-fixer idempotence: with P the composition process_vault
\* applies, P(P(t)) = P(t) for every text t.
C10_PreIdempotent ==
  fpc = "twice" => fout[2] = fout[1]

\* the value of a line "key: URL" whose URL is bare (not quoted, not in
\* brackets); NoMatch for any other line
BareUrlOf(line, key) ==
  IF /\ StartsWith(line, key \o <<":", SP>>)
     /\ IsUrlStart(SubSeq(line, Len(key) + 3, Len(line)))
     /\ \A i \in (Len(key) + 3)..Len(line) : line[i] \notin {"[", "]", DQ, SQ, SP}
  THEN SubSeq(line, Len(key) + 3, Len(line))
  ELSE NoMatch

\* what C17 states for the lines of a text
RECURSIVE BareUrlsQuoted(_)
BareUrlsQuoted(lines) ==
  IF lines = <<>> THEN <<>>
  ELSE (IF BareUrlOf(Head(lines), KwSource) # NoMatch
        THEN <<KwSource \o <<":", SP>> \o Quoted(BareUrlOf(Head(lines), KwSource))>>
        ELSE IF BareUrlOf(Head(lines), KwAliases) # NoMatch
        THEN AliasBlock(BareUrlOf(Head(lines), KwAliases))
        ELSE <<Head(lines)>>)
       \o BareUrlsQuoted(Tail(lines))

\* C17 -- Bare-URL scalar repair: in a text of plain lines and lines
\* "aliases: URL" or "source: URL" with a bare http(s) URL, the pre-fixers
\* turn each source line into source: "URL", each aliases line into
\* aliases: and the block item - "URL", and return the other lines unchanged.
C17_BareUrlsQuoted ==
  ( /\ fpc = "once"
    /\ \A i \in 1..Len(SplitLines(fin)) :
         SplitLines(fin)[i] \in {LTitle, LText, LSource, LAliasBare} )
  => SplitLines(fout[1]) = BareUrlsQuoted(SplitLines(fin))

\* what C18 states for the lines of a text, from line i on
RECURSIVE UrlPairsJoined(_, _)
UrlPairsJoined(lines, i) ==
  IF i > Len(lines) THEN <<>>
  ELSE IF /\ i < Len(lines)
          /\ StartsWith(lines[i], KwAliases \o <<":", SP, "[">>)
          /\ IsUrlStart(lines[i + 1])
       THEN AliasBlock(IF lines[i + 1][Len(lines[i + 1])] = "]"
                       THEN SubSeq(lines[i + 1], 1, Len(lines[i + 1]) - 1)
                       ELSE lines[i + 1])
              \o UrlPairsJoined(lines, i + 2)
       ELSE <<lines[i]>> \o UrlPairsJoined(lines, i + 1)

\* C18 -- Multi-line alias URL repair: a line that starts with "aliases: ["
\* and the bare URL line after it become aliases: and one block item with
\* the URL in double quotes, without the closing bracket; every other line
\* of the text stays in place and in order.
C18_UrlPairJoined ==
  fpc = "multiline" => SplitLines(fout[1]) = UrlPairsJoined(SplitLines(fin), 1)

-----------------------------------------------------------------------------
(* Inputs of the field normalizers *)

\* greatest length of a drawn list
MaxItems == 2

AliasTexts ==
  { <<"M", "y", SP, "T">>, <<"m", "y", SP, "t">>, <<"M", "y", SP, SP, "T", "?">>,
    <<DQ, "M", "y", SP, "T", DQ>>, <<"M", "Y", SP, "T">>, <<"k">>, <<"x", ",", SP, "y">> }

TitleValues == {NullV, StrV(<<"M", "y", SP, "T">>), StrV(<<"k">>)}

TagTexts ==
  { <<"a">>, <<"B">>, <<"b", "-", "c">>, <<"A", SP, "b">>, <<SP, "a">>,
    <<>>, <<"#">>, <<DSR>>, <<"a", TAB, "b">> }

\* the elements of a tags list: strs, and an int as YAML loads "- 7"
TagItems == {StrV(t) : t \in TagTexts} \cup {IntV(<<"7">>)}

SanitizeInputs ==
  {[op |-> "sanitize", value |-> ListV(q), title |-> t] :
     q \in SeqsUpTo({StrV(a) : a \in AliasTexts}, MaxItems), t \in TitleValues}
    \cup {[op |-> "sanitize", value |-> StrV(a), title |-> t] :
            a \in AliasTexts, t \in TitleValues}

TagInputs ==
  {[op |-> "tags", value |-> ListV(q), title |-> NullV] : q \in SeqsUpTo(TagItems, MaxItems)}
    \cup {[op |-> "tags", value |-> StrV(Join(q, <<",">>)), title |-> NullV] :
            q \in SeqsUpTo(TagTexts, MaxItems)}

InitNorm ==
  /\ EngineOff
  /\ fin \in SanitizeInputs \cup TagInputs
  /\ fout = <<>>
  /\ fpc = "start"

\* sanitize_list_field(value, title=title)
ApplySanitize ==
  /\ fpc = "start" /\ fin.op = "sanitize"
  /\ fout' = <<sanitize_list_field(fin.value, fin.title)>>
  /\ fpc' = "sanitized"
  /\ UNCHANGED <<fin, engineVars>>

\* clean_tags(raw_tags)
ApplyCleanTags ==
  /\ fpc = "start" /\ fin.op = "tags"
  /\ fout' = <<clean_tags(fin.value)>>
  /\ fpc' = "tags"
  /\ UNCHANGED <<fin, engineVars>>

NextNorm == ApplySanitize \/ ApplyCleanTags

SpecNorm == InitNorm /\ [][NextNorm]_vars

\* C7 -- Alias collapse: a list of one alias that equals the title once
\* quotes and "?" are stripped, blanks collapsed and case ignored is
\* answered by the one-element list of the normalized title.
C7_AliasCollapse ==
  ( /\ fpc = "sanitized"
    /\ fin.value.k = "list"
    /\ Len(fin.value.items) = 1
    /\ Truthy(fin.title)
    /\ Lower(normalize(PyStr(fin.value.items[1]))) = Lower(normalize(PyStr(fin.title))) )
  => fout[1] = <<StrV(normalize(PyStr(fin.title)))>>

\* C8 -- Tag sanitization: every tag clean_tags returns is non-empty and has
\* no blank, no upper-case letter and no hyphen; the list has no duplicate
\* and is in ascending order.
C8_CleanTagsPost ==
  fpc = "tags" =>
    LET r == fout[1]
    IN /\ \A i \in 1..Len(r) :
            /\ r[i] # <<>>
            /\ \A j \in 1..Len(r[i]) : ~IsWs(r[i][j]) /\ ~IsUpper(r[i][j]) /\ r[i][j] # "-"
       /\ \A i, j \in 1..Len(r) : i # j => r[i] # r[j]
       /\ \A i \in 1..(Len(r) - 1) : LexLess(r[i], r[i + 1])

-----------------------------------------------------------------------------
(* extract_frontmatter_block on drawn texts *)

\* greatest number of lines of a drawn text
MaxBlockLines == 4

\* ---   after a blank, and before one
LDashesLead == <<SP>> \o Dashes
LDashesTrail == Dashes \o <<SP>>

BlockLines == {Dashes, LDashesLead, LDashesTrail, LItemA, <<>>}

BlockTexts ==
  {Join(ls, <<NL>>) \o Feeds(n) : ls \in SeqsUpTo(BlockLines, MaxBlockLines), n \in 0..MaxTrail}

InitBlock ==
  /\ EngineOff
  /\ fin \in BlockTexts
  /\ fout = <<>>
  /\ fpc = "start"

\* extract_frontmatter_block(fin)
ApplyExtract ==
  /\ fpc = "start"
  /\ fout' = <<extract_frontmatter_block(fin)>>
  /\ fpc' = "extracted"
  /\ UNCHANGED <<fin, engineVars>>

NextBlock == ApplyExtract

SpecBlock == InitBlock /\ [][NextBlock]_vars

\* the delimiter lines after the first line of a text
LaterDelimiters(lines) == {j \in 2..Len(lines) : lines[j] = Dashes}

\* what C11 states for the lines of a text: [found, frontmatter, body]
BlockBetween(lines) ==
  IF Len(lines) >= 3 /\ lines[1] = Dashes /\ LaterDelimiters(lines) # {}
  THEN [found |-> TRUE,
        frontmatter |-> Join(SubSeq(lines, 2, Min(LaterDelimiters(lines)) - 1), <<NL>>),
        body |-> Join(SubSeq(lines, Min(LaterDelimiters(lines)) + 1, Len(lines)), <<NL>>)]
  ELSE [found |-> FALSE, frontmatter |-> <<>>, body |-> <<>>]

\* C11 -- Frontmatter extraction: a block is returned exactly when the text
\* has at least 3 lines, its first line is exactly --- and a later line is
\* ---; the frontmatter is then the lines between the first line and the
\* first later delimiter and the body the lines after it; else 'absent'.
C11_BlockExactly ==
  fpc = "extracted" => fout[1] = BlockBetween(SplitLines(fin))

-----------------------------------------------------------------------------
(* attempt_fix_broken_frontmatter on drawn frontmatters *)

\* greatest number of lines of a drawn frontmatter
MaxRescueLines == 3

\* subtitle: X   (a key whose name ends in title)
LSubtitle == <<"s", "u", "b", "t", "i", "t", "l", "e", ":", SP, "X">>
\* aliases: [k, x]   (the title, and another alias)
LAliasTitleAnd == <<"a", "l", "i", "a", "s", "e", "s", ":", SP, "[", "k", ",", SP, "x", "]">>
\* aliases: [kx, y]   (two aliases, the first has the title inside)
LAliasInside == <<"a", "l", "i", "a", "s", "e", "s", ":", SP, "[", "k", "x", ",", SP, "y", "]">>
\* aliases: ["K "]   (the title, up to case, blanks and quotes)
LAliasOnly == <<"a", "l", "i", "a", "s", "e", "s", ":", SP, "[", DQ, "K", SP, DQ, "]">>
\* aliases: [x, y]   (two aliases, none the title)
LAliasOthers == <<"a", "l", "i", "a", "s", "e", "s", ":", SP, "[", "x", ",", SP, "y", "]">>

RescueLines ==
  {LTitle, LSubtitle, LAliasTitleAnd, LAliasInside, LAliasOnly, LAliasOthers,
   LAliasBroken, LTagsBroken, LBad}

RescueTexts == {Join(ls, <<NL>>) : ls \in SeqsUpTo(RescueLines, MaxRescueLines)}

InitRescue ==
  /\ EngineOff
  /\ fin \in RescueTexts
  /\ fout = <<>>
  /\ fpc = "start"

\* attempt_fix_broken_frontmatter(fin, title="")
ApplyRescue ==
  /\ fpc = "start"
  /\ fout' = <<attempt_fix_broken_frontmatter(fin)>>
  /\ fpc' = "rescued"
  /\ UNCHANGED <<fin, engineVars>>

NextRescue == ApplyRescue

SpecRescue == InitRescue /\ [][NextRescue]_vars

\* the content of the first inline aliases list of a text (it has one)
InlineAliases(text) ==
  SubSeq(text, ListAt(text, ListSearch(text, 1, KwAliases), KwAliases).gs,
         ListAt(text, ListSearch(text, 1, KwAliases), KwAliases).ge)

\* the items of that content, as the block list shows them
InlineItems(raw) ==
  [n \in 1..Len(SplitCommaWs(raw)) |-> BlockItems(<<StripItem(SplitCommaWs(raw)[n])>>)]

\* C13 -- Rescue alias collapse condition: the inline aliases list becomes
\* the one-item block list of the normalized title only if its whole content
\* normalizes to the title; otherwise every item of the list is kept as an
\* item of the block list.
C13_CollapseOnlyWhenEqual ==
  ( /\ fpc = "rescued"
    /\ fout[1].ok
    /\ ListSearch(fin, 1, KwAliases) # 0 )
  => IF normalize_for_compare(InlineAliases(InsertCommas(fin)))
          = normalize_for_compare(RescueTitle(fin))
     THEN Contains(fout[1].s,
                   KwAliases \o BlockHead \o Quoted(normalize_for_compare(RescueTitle(fin))))
     ELSE \A n \in 1..Len(InlineItems(InlineAliases(InsertCommas(fin)))) :
            Contains(fout[1].s,
                     <<NL, SP, SP, "-", SP>> \o InlineItems(InlineAliases(InsertCommas(fin)))[n])

\* the lines of a text whose key is none of title, aliases and tags
OtherFieldLines(text) ==
  {l \in {SplitLines(text)[i] : i \in 1..Len(SplitLines(text))} :
     EntryKey(l) \notin {KwTitle, KwAliases, KwTags}}

\* C14 -- Rescue never silently drops data from other fields: every line of
\* the frontmatter whose key is not title, aliases or tags (a subtitle line,
\* say) is a line of the rescued text, with the value it had after the
\* commas of step 1 were inserted.
C14_OtherFieldsKept ==
  (fpc = "rescued" /\ fout[1].ok)
    => OtherFieldLines(InsertCommas(fin))
         \subseteq {SplitLines(fout[1].s)[i] : i \in 1..Len(SplitLines(fout[1].s))}

-----------------------------------------------------------------------------
(* fix_frontmatter on drawn texts *)

\* greatest number of lines of a drawn body, and of line feeds after it
MaxBodyLines == 2
MaxFixTrail == 2

BodyLines == {LText, <<>>, Dashes}

FixTexts ==
  {Dashes \o <<NL>> \o Join(fm, <<NL>>) \o <<NL>> \o Dashes
     \o (IF body = <<>> THEN <<>> ELSE <<NL>> \o Join(body, <<NL>>)) \o Feeds(n) :
     fm \in Frontmatters \ {<<>>}, body \in SeqsUpTo(BodyLines, MaxBodyLines),
     n \in 0..MaxFixTrail}

InitFix ==
  /\ EngineOff
  /\ fin \in FixTexts
  /\ fout = <<>>
  /\ fpc = "start"

\* fix_frontmatter(fin, "k.md", ["title", "created", "tags"], "a")
ApplyFix ==
  /\ fpc = "start"
  /\ fout' = <<fix_frontmatter(fin, BaseName(NoteA), {KwTitle, KwCreated, KwTags}, DefaultTag)>>
  /\ fpc' = "fixed"
  /\ UNCHANGED <<fin, engineVars>>

NextFix == ApplyFix

SpecFix == InitFix /\ [][NextFix]_vars

\* the lines of a text after its closing delimiter (it has one)
LinesAfterBlock(text) ==
  SubSeq(SplitLines(text), Min(LaterDelimiters(SplitLines(text))) + 1, Len(SplitLines(text)))

\* C16 -- Body preservation on fix: when fix_frontmatter returns "Fixed
\* existing frontmatter", the text it returns is the --- line, the mapping,
\* the --- line and then exactly the lines that followed the closing
\* delimiter in the text it was given: none added, removed or altered.
C16_BodyKept ==
  (fpc = "fixed" /\ fout[1].kind = "return" /\ fout[1].status = StatusFixed)
    => /\ StartsWith(fout[1].content, Dashes \o <<NL>>)
       /\ LaterDelimiters(SplitLines(fout[1].content)) # {}
       /\ LinesAfterBlock(fout[1].content) = LinesAfterBlock(fin)


\* the first load of the block of a text raised a parse error (line 279)
FirstParseFailed(text) ==
  /\ extract_frontmatter_block(text).found
  /\ FirstLoad(YamlLoad(extract_frontmatter_block(text).frontmatter)).kind = "rescue"

\* the load of the rescued block gave a mapping (line 284)
SecondParseGave(text) ==
  SecondLoad(attempt_fix_broken_frontmatter(extract_frontmatter_block(text).frontmatter)).kind
    = "data"

\* C19 -- Successful rescue is recorded as a change: when the first parse of
\* the block fails and the parse of the rescued text succeeds, fix_frontmatter
\* returns "Fixed existing frontmatter" with rewritten content, and never
\* "Valid and unmodified".
C19_RescueIsChange ==
  (fpc = "fixed" /\ FirstParseFailed(fin) /\ SecondParseGave(fin))
    => /\ fout[1].kind = "return"
       /\ fout[1].status = StatusFixed
       /\ fout[1].content # NoMatch


\* the four rewrites of the rescue, in the order of C20
FourRewrites(text) ==
  RescueTags(RescueAliases(SubTitleFrom(InsertCommas(text), 1, TitleTemplate(text).s),
                           RescueTitle(text)).s).s

\* C20 -- Rescue ordering and single retry: fix_frontmatter calls yaml.load
\* at most twice; the second call comes only after the first raised a parse
\* error, and its text is the block after comma insertion, title re-quoting,
\* aliases rewrite and tags rewrite, in that order; when the second call
\* raises too, fix_frontmatter returns "Still invalid after fix" without
\* content.
C20_RescueOnce ==
  fpc = "fixed"
    => /\ Len(fout[1].loaded) <= 2
       /\ Len(fout[1].loaded) = 2
            => /\ YamlLoad(fout[1].loaded[1]).st = "error"
               /\ fout[1].loaded[2] = FourRewrites(fout[1].loaded[1])
               /\ YamlLoad(fout[1].loaded[2]).st = "error"
                    => /\ fout[1].kind = "return"
                       /\ fout[1].status = StatusInvalid
                       /\ fout[1].content = NoMatch

\* a second load was made and raised
C20_SecondFailed ==
  /\ fpc = "fixed"
  /\ Len(fout[1].loaded) = 2
  /\ YamlLoad(fout[1].loaded[2]).st = "error"


-----------------------------------------------------------------------------
(* Step 1 of the rescue on flow lists of quoted tokens *)

\* greatest number of quoted tokens of a drawn list
MaxTokens == 3

QuotedTokens == {<<DQ, "a", DQ>>, <<DQ, "b", DQ>>}
\* what separates two tokens: blanks (the comma was lost) or a comma
TokenGaps == {<<SP>>, <<SP, SP>>, <<",", SP>>}

RECURSIVE GlueTokens(_)
GlueTokens(ps) ==
  IF ps = <<>> THEN <<>> ELSE Head(ps)[1] \o Head(ps)[2] \o GlueTokens(Tail(ps))

CommaTexts ==
  {<<"[">> \o t \o GlueTokens(ps) \o <<"]">> :
     t \in QuotedTokens, ps \in SeqsUpTo(TokenGaps \X QuotedTokens, MaxTokens - 1)}

InitCommas ==
  /\ EngineOff
  /\ fin \in CommaTexts
  /\ fout = <<>>
  /\ fpc = "start"

\* line 192: fixed = re.sub(r'(".*?")\s+(".*?")', r'\1, \2', fixed)
ApplyCommas ==
  /\ fpc = "start"
  /\ fout' = <<InsertCommas(fin)>>
  /\ fpc' = "commas"
  /\ UNCHANGED <<fin, engineVars>>

NextCommas == ApplyCommas

SpecCommas == InitCommas /\ [][NextCommas]_vars

\* the positions of text where a quoted token ends and, after blanks only,
\* the next quoted token starts (the tokens hold no quote)
BareGaps(text) ==
  {i \in 1..Len(text) :
     /\ text[i] = DQ
     /\ Cardinality({j \in 1..i : text[j] = DQ}) % 2 = 0
     /\ SkipWs(text, i + 1) > i + 1
     /\ SkipWs(text, i + 1) <= Len(text)
     /\ text[SkipWs(text, i + 1)] = DQ}

\* C21 -- Comma insertion is complete: after step 1 of the rescue no two
\* adjacent double-quoted tokens of the text are separated by whitespace
\* only, whatever the length of the run of tokens.
C21_CommasComplete ==
  fpc = "commas" => BareGaps(fout[1]) = {}


-----------------------------------------------------------------------------
(* clean_malformed_title, one step of its loops at a time *)

\* greatest length of a drawn raw title
MaxTitleLen == 3

RECURSIVE Backslashes(_)
Backslashes(n) == IF n = 0 THEN <<>> ELSE <<BS>> \o Backslashes(n - 1)

\* runs of backslashes that five passes halve to one, and do not
SlashRuns == {9, 17}

RawTitles ==
  SeqsUpTo({BS, DQ, SQ, "a", SP}, MaxTitleLen) \cup {Backslashes(n) : n \in SlashRuns}

InitTitle ==
  /\ EngineOff
  /\ fin \in RawTitles
  /\ fout = <<>>
  /\ fpc = "start"

\* lines 69-70: s = raw_title.strip(); last_s = None
TitleStrip ==
  /\ fpc = "start"
  /\ fout' = <<[s |-> Strip(fin), last_s |-> NoMatch, passes |-> 0]>>
  /\ fpc' = "for"
  /\ UNCHANGED <<fin, engineVars>>

\* lines 78-80: the three replaces of a pass
Unescape(s) ==
  Replace(Replace(Replace(s, <<BS, BS>>, <<BS>>), <<BS, DQ>>, <<DQ>>), <<BS, SQ>>, <<SQ>>)

\* the head of the for loop with no test of s against last_s
TitleForNoBreak ==
  /\ fpc = "for"
  /\ IF fout[1].passes = max_depth
     THEN fpc' = "return" /\ fout' = fout
     ELSE /\ \E u \in {Unescape(fout[1].s)} :
               fout' = <<[s |-> u, last_s |-> fout[1].s, passes |-> fout[1].passes + 1]>>
          /\ fpc' = "while"
  /\ UNCHANGED <<fin, engineVars>>

\* lines 72-80: the head of the for loop, the break, and the three replaces
TitleFor ==
  /\ fpc = "for"
  /\ IF fout[1].passes = max_depth \/ fout[1].s = fout[1].last_s
     THEN fpc' = "return" /\ fout' = fout
     ELSE /\ \E u \in {Unescape(fout[1].s)} :
               fout' = <<[s |-> u, last_s |-> fout[1].s, passes |-> fout[1].passes + 1]>>
          /\ fpc' = "while"
  /\ UNCHANGED <<fin, engineVars>>

\* line 83: the condition of the while loop
Wrapped(s) == s # <<>> /\ Head(s) \in Quotes /\ s[Len(s)] = Head(s)

\* line 84: s = s[1:-1].strip()
TitleUnwrap ==
  /\ fpc = "while"
  /\ Wrapped(fout[1].s)
  /\ fout' = <<[fout[1] EXCEPT !.s = Strip(SubSeq(@, 2, Len(@) - 1))]>>
  /\ fpc' = "while"
  /\ UNCHANGED <<fin, engineVars>>

\* lines 87-88, when the while loop is left
TitleRuns ==
  /\ fpc = "while"
  /\ ~Wrapped(fout[1].s)
  /\ fout' = <<[fout[1] EXCEPT !.s = DropQuoteRuns(@)]>>
  /\ fpc' = "for"
  /\ UNCHANGED <<fin, engineVars>>

\* line 90: return s.strip()
TitleReturn ==
  /\ fpc = "return"
  /\ fout' = <<[fout[1] EXCEPT !.s = Strip(@)]>>
  /\ fpc' = "returned"
  /\ UNCHANGED <<fin, engineVars>>

NextTitle == TitleStrip \/ TitleFor \/ TitleUnwrap \/ TitleRuns \/ TitleReturn

SpecTitle == InitTitle /\ [][NextTitle]_vars

\* the call runs on: a step that can be taken is taken
LiveTitle == SpecTitle /\ WF_vars(NextTitle)

\* C22 -- Bounded title unescaping: clean_malformed_title returns for every
\* string; it runs its pass at most max_depth = 5 times; once a pass has
\* left the string as it was, no further pass is run; and each turn of the
\* loop that strips wrapping quotes shortens the string, so that loop ends
\* (on a string that is one quote character too).
C22_BoundedUnescape ==
  /\ [](fpc \in {"for", "while", "return", "returned"} => fout[1].passes <= max_depth)
  /\ [][(fpc = "for" /\ fout[1].s = fout[1].last_s) => fpc' = "return"]_vars
  /\ [][(fpc = "while" /\ fpc' = "while") => Len(fout'[1].s) < Len(fout[1].s)]_vars
  /\ <>(fpc = "returned")

\* the call returned after the five passes, the last of which changed the string
C22_CapReached ==
  /\ fpc = "returned"
  /\ fout[1].passes = max_depth
  /\ fout[1].s # fout[1].last_s


\* what lines 277-288 leave for the block of a text that has one
LoadedOf(text) ==
  LET Pick(first, second) == IF first.kind = "rescue" THEN second ELSE first
  IN Pick(FirstLoad(YamlLoad(extract_frontmatter_block(text).frontmatter)),
          SecondLoad(attempt_fix_broken_frontmatter(
                       extract_frontmatter_block(text).frontmatter)))

\* C23 -- Tag sanitization is guarded by the parsed mapping: a block that
\* parses to a mapping without a tags key, while its raw text contains the
\* substring "tags", is processed to the status fixed or unmodified without
\* an error.
C23_TagsGuardedByMapping ==
  ( /\ fpc = "fixed"
    /\ extract_frontmatter_block(fin).found
    /\ LoadedOf(fin).kind = "data"
    /\ ~HasKey(LoadedOf(fin).data, KwTags)
    /\ Contains(extract_frontmatter_block(fin).frontmatter, KwTags) )
  => /\ fout[1].kind = "return"
     /\ fout[1].status \in {StatusFixed, StatusUnmodified}

====
